---------------------------- MODULE Spec2Model ----------------------------
(***************************************************************************)
(* Model of the server assistant's health engine (src/src/health.rs,      *)
(* check_server_health and ping_server) together with the part of         *)
(* src/src/main.rs that owns the shared cells SERVER_HEALTH and           *)
(* TIMESTAMP_LAST_ACCESS_LOG and supervises the health task.               *)
(*                                                                         *)
(* The backend's log file is a sequence of tokens.  A line is a header     *)
(* token followed by the whitespace-delimited tokens of the message and is *)
(* ended by the token NL.  Time is kept relative: elapsed is the number of *)
(* seconds since the instant stored in TIMESTAMP_LAST_ACCESS_LOG.          *)
(***************************************************************************)
EXTENDS Integers, Sequences, FiniteSets, TLC

VARIABLES
    log,               \* content of start-llamaedge.log, a sequence of tokens
    partial,           \* tokens of a line the backend has not yet written out
    pc,                \* position of the health task
    can_check,         \* health.rs:102
    current_position,  \* health.rs:100
    file_offset,       \* offset shared by `file` and `file_clone` (health.rs:77-97)
    new_lines,         \* health.rs:121
    updated,           \* health.rs:132
    SERVER_HEALTH,     \* main.rs:27: "unset", "true" or "false"
    elapsed,           \* now - *TIMESTAMP_LAST_ACCESS_LOG, -1 while the cell is unset
    ping_path,         \* which of the three call sites of ping_server is active
    ping_result,       \* outcome of the last ping_server call of this iteration
    since_probe,       \* seconds since ping_server was last called, -1 before the first call
    last_probe,        \* call site of that call
    delivered,         \* every byte handed to the line analysis so far, in order
    main_pc,           \* position of main (main.rs:58-383)
    config,            \* what main finds on the command line and on disk
    spawned,           \* the tasks main has spawned (main.rs:304, 341, 371)
    last_response,     \* the response the router sent last
    written_ago,       \* seconds since the backend wrote its newest response line, -1 if none
    late,              \* bytes appended since the loop last looked at the file size
    n_pc,              \* position of periodic_notifications (main.rs:667-713)
    n_health,          \* main.rs:675-682: the verdict read in this tick, "none" between ticks
    n_subs,            \* main.rs:683, 691: the subscriber URLs still to be posted to in this tick
    n_last,            \* the last POST of this tick and how it ended
    info_pc,           \* position of the task that retrieves and pushes the server info
    SERVER_INFO,       \* main.rs:25
    info_subs,         \* main.rs:558: the subscriber URLs push_server_info has still to serve
    info_retry,        \* main.rs:559
    info_sends,        \* number of requests push_server_info has sent, per URL
    info_last,         \* how the last of these requests ended
    ping_sends,        \* requests ping_server has sent in this iteration of the loop
    health_guard,      \* the task that holds a guard on SERVER_HEALTH while it awaits, "none" if none does
    ts_guard           \* the guard on TIMESTAMP_LAST_ACCESS_LOG the health task holds while it awaits

vars == <<log, partial, pc, can_check, current_position, file_offset,
          new_lines, updated, SERVER_HEALTH, elapsed, ping_path,
          ping_result, since_probe, last_probe, delivered, main_pc, config,
          spawned, last_response, written_ago, late, n_pc, n_health, n_subs,
          n_last, info_pc, SERVER_INFO, info_subs, info_retry, info_sends,
          info_last, ping_sends, health_guard, ts_guard>>

mainVars == <<main_pc, config, spawned>>

routerVars == <<last_response>>

timedVars == <<written_ago, late>>

notifyVars == <<n_pc, n_health, n_subs, n_last>>

pushVars == <<info_pc, SERVER_INFO, info_subs, info_retry, info_sends,
              info_last>>

auditVars == <<ping_sends, health_guard, ts_guard>>

-----------------------------------------------------------------------------
(* Bounds of the model *)

\* the backend writes at most this many lines
MaxLines == 3

\* the same, in the runs where the backend writes lines in pieces
MaxSplitLines == 2

\* the same, in the runs where the router answers requests
MaxRouterLines == 1

\* the same, in the runs that keep track of when the backend wrote
MaxTimedLines == 2

\* the same, in the runs with the notifier and the info push
MaxTaskLines == 1

(* Program constants *)

MAX_TIME_SPAN_IN_SECONDS == 30

\* default of the --interval option
Interval == 10

\* hyper::StatusCode::INTERNAL_SERVER_ERROR and ::NOT_FOUND
INTERNAL_SERVER_ERROR == 500

NOT_FOUND == 404

\* elapsed times saturate here: every value at or above the threshold and one
\* interval beyond it is kept apart
TimeCap == MAX_TIME_SPAN_IN_SECONDS + Interval

-----------------------------------------------------------------------------
(* Log tokens *)

NL == "\n"

\* "[2024-05-01 12:00:00.123] [INFO] llama_api_server in src/main.rs:12: "
Header == "H"

\* the same header with a timestamp field that is not "%Y-%m-%d %H:%M:%S%.3f"
BadTsHeader == "B"

RespPrefix == "response_status:"

\* the lines the backend writes (without the newline)
LineTemplates ==
    { <<Header, "endpoint:", "/v1/chat/completions">>,
      <<Header, RespPrefix, "200">>,
      <<Header, RespPrefix, "500">>,
      <<Header, RespPrefix, "404">>,
      <<Header, "listening">>,
      <<"garbage">>,
      <<BadTsHeader, RespPrefix, "200">> }

-----------------------------------------------------------------------------
(* Pure functions *)

Min(a, b) == IF a <= b THEN a ELSE b

\* str::lines(): split at every newline; a last line without a newline is
\* still a line; no empty line after a final newline
RECURSIVE SplitLines(_, _)
SplitLines(s, cur) ==
    IF s = <<>>
    THEN IF cur = <<>> THEN <<>> ELSE <<cur>>
    ELSE IF Head(s) = NL
         THEN <<cur>> \o SplitLines(Tail(s), <<>>)
         ELSE SplitLines(Tail(s), Append(cur, Head(s)))

Lines(s) == SplitLines(s, <<>>)

\* the regular expression of LogMessage::from_str: anchored at the start of
\* the line, message ".*" may be empty
MatchesGrammar(line) == line # <<>> /\ line[1] \in {Header, BadTsHeader}

\* variant: the captures of a line that does not match are unwrapped
from_strUnwrap(line) ==
    IF ~MatchesGrammar(line) THEN "panic"
    ELSE IF line[1] = BadTsHeader THEN "panic"
    ELSE "ok"

\* LogMessage::from_str: "err" (no match), "panic" (timestamp does not parse)
\* or "ok"
from_str(line) ==
    IF ~MatchesGrammar(line) THEN "err"
    ELSE IF line[1] = BadTsHeader THEN "panic"
    ELSE "ok"

custom_message(line) == Tail(line)

\* custom_message.starts_with("response_status:")
IsResponse(line) ==
    /\ from_str(line) = "ok"
    /\ custom_message(line) # <<>>
    /\ custom_message(line)[1] = RespPrefix

\* custom_message.split_whitespace().last().unwrap()
status_code(line) == custom_message(line)[Len(custom_message(line))]

\* variant: the two branches of health.rs:162-196 swapped
VerdictOfStatusInverted(code) == IF code = "500" THEN "true" ELSE "false"

\* variant: only "200" counts as healthy
VerdictOfStatusOnly200(code) == IF code = "200" THEN "true" ELSE "false"

\* the verdict a response line yields (health.rs:162-196)
VerdictOfStatus(code) == IF code = "500" THEN "false" ELSE "true"

\* variant: the scan without .rev(), oldest line first
RECURSIVE ScanUp(_, _)
ScanUp(lines, k) ==
    IF k > Len(lines) THEN <<"none">>
    ELSE IF from_str(lines[k]) = "panic" THEN <<"panic">>
    ELSE IF IsResponse(lines[k]) THEN <<"found", status_code(lines[k])>>
    ELSE ScanUp(lines, k + 1)

ScanOldestFirst(lines, i) == ScanUp(SubSeq(lines, 1, i), 1)

\* variant: every line of the batch is parsed before the newest response
\* line is looked for
ScanParsesAll(lines, i) ==
    IF \E k \in 1..i : from_str(lines[k]) = "panic" THEN <<"panic">>
    ELSE IF \A k \in 1..i : ~IsResponse(lines[k]) THEN <<"none">>
    ELSE LET n == CHOOSE k \in 1..i :
                      /\ IsResponse(lines[k])
                      /\ \A j \in (k + 1)..i : ~IsResponse(lines[j])
         IN  <<"found", status_code(lines[n])>>

\* variant: a response with 500 anywhere below the newest response line
\* decides the verdict
ScanAnyFailure(lines, i) ==
    LET resp == {k \in 1..i : IsResponse(lines[k])}
        n == IF resp = {} THEN 0
             ELSE CHOOSE k \in resp : \A j \in resp : j <= k
    IN  IF \E k \in (n + 1)..i : from_str(lines[k]) = "panic"
        THEN <<"panic">>
        ELSE IF n = 0 THEN <<"none">>
        ELSE IF \E k \in resp : status_code(lines[k]) = "500"
             THEN <<"found", "500">>
             ELSE <<"found", status_code(lines[n])>>

\* The scan of health.rs:133-203 over lines[1..i], newest line first, stopping
\* at the first response line: <<"found", status code>>, <<"none">> when no
\* line is a response, <<"panic">> when from_str panics before one is found
RECURSIVE Scan(_, _)
Scan(lines, i) ==
    IF i = 0 THEN <<"none">>
    ELSE IF from_str(lines[i]) = "panic" THEN <<"panic">>
    ELSE IF IsResponse(lines[i]) THEN <<"found", status_code(lines[i])>>
    ELSE Scan(lines, i - 1)

Analysis(bytes) == Scan(Lines(bytes), Len(Lines(bytes)))

\* time passing for a relative clock that may be unset (-1)
Later(t, d) == IF t = -1 THEN -1 ELSE Min(t + d, TimeCap)

\* the headers both error responses are built with (error.rs:27-29, 47-49)
CorsHeaders ==
    {<<"Access-Control-Allow-Origin", "*">>,
     <<"Access-Control-Allow-Methods", "*">>,
     <<"Access-Control-Allow-Headers", "*">>}

\* variant: the response is built with StatusCode::NOT_FOUND
internal_server_errorNotFound(msg) ==
    [status |-> NOT_FOUND,
     headers |-> CorsHeaders,
     body |-> IF msg = "" THEN <<"500 Internal Server Error">>
              ELSE <<"500 Internal Server Error", ": ", msg>>]

\* error.rs:17-33; the body is the text and, for a message that is not
\* empty, ": " and the message
internal_server_error(msg) ==
    [status |-> INTERNAL_SERVER_ERROR,
     headers |-> CorsHeaders,
     body |-> IF msg = "" THEN <<"500 Internal Server Error">>
              ELSE <<"500 Internal Server Error", ": ", msg>>]

\* variant: the builder leaves out Access-Control-Allow-Headers
invalid_endpointTwoHeaders(msg) ==
    [status |-> NOT_FOUND,
     headers |-> {<<"Access-Control-Allow-Origin", "*">>,
                  <<"Access-Control-Allow-Methods", "*">>},
     body |-> IF msg = ""
              THEN <<"404 The requested service endpoint is not found">>
              ELSE <<"404 The requested service endpoint is not found",
                     ": ", msg>>]

\* error.rs:35-54
invalid_endpoint(msg) ==
    [status |-> NOT_FOUND,
     headers |-> CorsHeaders,
     body |-> IF msg = ""
              THEN <<"404 The requested service endpoint is not found">>
              ELSE <<"404 The requested service endpoint is not found",
                     ": ", msg>>]

-----------------------------------------------------------------------------
(* Initial state: main starts, no task is spawned, the cells are unset *)

\* the three tasks main spawns and joins
Tasks == {"push_info", "health_check", "health_notify"}

\* what main is started with: whether --server-socket-addr parses, whether
\* <gaianet-dir>/log/start-llamaedge.log is a file, and whether frpc.toml and
\* config.json can be read and hold a device id and a domain
Configs == [addr_ok : BOOLEAN, log_file_ok : BOOLEAN, files_ok : BOOLEAN]

\* no response sent yet
NoResponse ==
    [path |-> "", status |-> 0, headers |-> {}, body |-> <<>>,
     forwarded |-> FALSE]

\* no POST made in this tick
NoPost == [url |-> "", health |-> "none", outcome |-> "none"]

\* SERVER_INFO is unset
NoInfo == [by |-> "nobody", augmented |-> 0]

Init ==
    /\ log = <<>>
    /\ partial = <<>>
    /\ delivered = <<>>
    /\ main_pc = "parse_addr"
    /\ config \in Configs
    /\ spawned = {}
    /\ last_response = NoResponse
    /\ written_ago = -1
    /\ late = 0
    /\ n_pc = "unspawned"
    /\ n_health = "none"
    /\ n_subs = <<>>
    /\ n_last = NoPost
    /\ info_pc = "unspawned"
    /\ SERVER_INFO = NoInfo
    /\ info_subs = <<>>
    /\ info_retry = 0
    /\ info_sends = <<>>
    /\ info_last = "none"
    /\ pc = "unspawned"
    /\ can_check = TRUE
    /\ current_position = 0
    /\ file_offset = 0
    /\ new_lines = <<>>
    /\ updated = FALSE
    /\ SERVER_HEALTH = "unset"
    /\ elapsed = -1
    /\ ping_path = "none"
    /\ ping_result = "none"
    /\ since_probe = -1
    /\ last_probe = "none"
    /\ ping_sends = 0
    /\ health_guard = "none"
    /\ ts_guard = "none"

loopVars == <<pc, can_check, current_position, file_offset,
              new_lines, updated, SERVER_HEALTH, elapsed, ping_path, ping_result,
              since_probe, last_probe>>

-----------------------------------------------------------------------------
(* The backend and the file system *)

LinesWritten == Cardinality({i \in 1..Len(log) : log[i] = NL})

\* the backend writes one whole line
AppendLine ==
    /\ partial = <<>>
    /\ LinesWritten < MaxLines
    /\ \E t \in LineTemplates : log' = log \o t \o <<NL>>
    /\ UNCHANGED partial
    /\ UNCHANGED loopVars
    /\ UNCHANGED <<delivered, mainVars, routerVars>>
    /\ UNCHANGED <<timedVars, notifyVars, pushVars>>
    /\ UNCHANGED auditVars

\* the backend writes one whole line, in the runs where it also writes
\* lines in pieces
SplitAppendLine ==
    /\ partial = <<>>
    /\ LinesWritten < MaxSplitLines
    /\ \E t \in LineTemplates : log' = log \o t \o <<NL>>
    /\ UNCHANGED partial
    /\ UNCHANGED loopVars
    /\ UNCHANGED <<delivered, mainVars, routerVars>>
    /\ UNCHANGED <<timedVars, notifyVars, pushVars>>
    /\ UNCHANGED auditVars

\* the backend writes the first k tokens of a line and the rest later
AppendPrefix ==
    /\ partial = <<>>
    /\ LinesWritten < MaxSplitLines
    /\ \E t \in LineTemplates : \E k \in 1..Len(t) :
          /\ log' = log \o SubSeq(t, 1, k)
          /\ partial' = SubSeq(t, k + 1, Len(t)) \o <<NL>>
    /\ UNCHANGED loopVars
    /\ UNCHANGED <<delivered, mainVars, routerVars>>
    /\ UNCHANGED <<timedVars, notifyVars, pushVars>>
    /\ UNCHANGED auditVars

AppendRest ==
    /\ partial # <<>>
    /\ log' = log \o partial
    /\ partial' = <<>>
    /\ UNCHANGED loopVars
    /\ UNCHANGED <<delivered, mainVars, routerVars>>
    /\ UNCHANGED <<timedVars, notifyVars, pushVars>>
    /\ UNCHANGED auditVars

\* the backend writes one whole line, in the runs that keep track of when it
\* wrote: a response line is stamped with the present instant, and bytes
\* written after the loop has looked at the file size and before it reads
\* are counted
TimedAppendLine ==
    /\ partial = <<>>
    /\ LinesWritten < MaxTimedLines
    /\ \E t \in LineTemplates :
          /\ log' = log \o t \o <<NL>>
          /\ written_ago' = IF IsResponse(t) THEN 0 ELSE written_ago
          /\ late' = IF pc = "check" THEN late + Len(t) + 1 ELSE late
    /\ UNCHANGED partial
    /\ UNCHANGED loopVars
    /\ UNCHANGED <<delivered, mainVars, routerVars>>
    /\ UNCHANGED <<notifyVars, pushVars>>
    /\ UNCHANGED auditVars

envVars == <<log, partial>>

-----------------------------------------------------------------------------
(* The health task: check_server_health, run under main's supervision *)

\* outcomes of ping_server as the health loop tells them apart:
\* "success"  Ok(response), status is a success
\* "qdrant"   Ok(response), status is no success, body contains "Qdrant error:"
\* "rejected" Ok(response), status is no success, any other body
\* "bodyerr"  Ok(response), status is no success, the body cannot be read
\* "down"     Err(ServerDownError): the request could not be sent or answered
PingOutcomes == {"success", "qdrant", "rejected", "bodyerr", "down"}

\* seconds a ping_server call may take
PingSeconds == {0, Interval}

\* the locals of check_server_health once it has returned or unwound
LocalsDropped ==
    /\ can_check' = FALSE
    /\ current_position' = 0
    /\ file_offset' = 0
    /\ new_lines' = <<>>
    /\ updated' = FALSE
    /\ ping_path' = "none"
    /\ ping_result' = "none"
    /\ ping_sends' = 0

\* variant: the read stops at the file size the loop saw after its sleep
ReadNewLinesToSnapshot ==
    /\ pc = "check"
    /\ can_check
    /\ new_lines' = SubSeq(log, current_position + 1, Len(log) - late)
    /\ file_offset' = Len(log) - late
    /\ delivered' = delivered \o new_lines'
    /\ pc' = "analyze"
    /\ UNCHANGED <<can_check, current_position, updated,
                   SERVER_HEALTH, elapsed, ping_path, ping_result, since_probe,
                   last_probe>>
    /\ UNCHANGED <<envVars, mainVars, routerVars>>
    /\ UNCHANGED <<timedVars, notifyVars, pushVars>>
    /\ UNCHANGED auditVars

\* variant: every read starts at the beginning of the file
ReadNewLinesFromStart ==
    /\ pc = "check"
    /\ can_check
    /\ new_lines' = SubSeq(log, 1, Len(log))
    /\ file_offset' = Len(log)
    /\ delivered' = delivered \o new_lines'
    /\ pc' = "analyze"
    /\ UNCHANGED <<can_check, current_position, updated,
                   SERVER_HEALTH, elapsed, ping_path, ping_result, since_probe,
                   last_probe>>
    /\ UNCHANGED <<envVars, mainVars, routerVars>>
    /\ UNCHANGED <<timedVars, notifyVars, pushVars>>
    /\ UNCHANGED auditVars

\* health.rs:111-129: seek to current_position and read to the end of the file
ReadNewLines ==
    /\ pc = "check"
    /\ can_check
    /\ new_lines' = SubSeq(log, current_position + 1, Len(log))
    /\ file_offset' = Len(log)
    /\ delivered' = delivered \o new_lines'
    /\ pc' = "analyze"
    /\ UNCHANGED <<can_check, current_position, updated,
                   SERVER_HEALTH, elapsed, ping_path, ping_result, since_probe,
                   last_probe>>
    /\ UNCHANGED <<envVars, mainVars, routerVars>>
    /\ UNCHANGED <<timedVars, notifyVars, pushVars>>
    /\ UNCHANGED auditVars

\* health.rs:133-134 with LogMessage::from_str panicking (health.rs:42-45)
AnalyzePanics ==
    /\ pc = "analyze"
    /\ Analysis(new_lines)[1] = "panic"
    /\ pc' = "panicked"
    /\ LocalsDropped
    /\ UNCHANGED <<SERVER_HEALTH, elapsed, since_probe, last_probe>>
    /\ UNCHANGED delivered
    /\ UNCHANGED <<envVars, mainVars, routerVars>>
    /\ UNCHANGED <<timedVars, notifyVars, pushVars>>
    /\ UNCHANGED <<health_guard, ts_guard>>

\* variant: the timestamp of the response line is stored
AnalyzeFindsResponseLineTime ==
    /\ pc = "analyze"
    /\ Analysis(new_lines)[1] = "found"
    /\ elapsed' = written_ago
    /\ SERVER_HEALTH' = VerdictOfStatus(Analysis(new_lines)[2])
    /\ updated' = TRUE
    /\ pc' = "position"
    /\ UNCHANGED <<can_check, current_position, file_offset,
                   new_lines, ping_path, ping_result, since_probe, last_probe>>
    /\ UNCHANGED delivered
    /\ UNCHANGED <<envVars, mainVars, routerVars>>
    /\ UNCHANGED <<timedVars, notifyVars, pushVars>>
    /\ UNCHANGED auditVars

\* variant: a response in a batch that holds no 'endpoint:' line is unpaired
\* and counts as unhealthy
AnalyzeFindsResponsePairing ==
    /\ pc = "analyze"
    /\ Analysis(new_lines)[1] = "found"
    /\ elapsed' = 0
    /\ SERVER_HEALTH' =
          IF \E i \in 1..Len(Lines(new_lines)) :
                 /\ Len(Lines(new_lines)[i]) > 1
                 /\ Lines(new_lines)[i][2] = "endpoint:"
          THEN VerdictOfStatus(Analysis(new_lines)[2])
          ELSE "false"
    /\ updated' = TRUE
    /\ pc' = "position"
    /\ UNCHANGED <<can_check, current_position, file_offset,
                   new_lines, ping_path, ping_result, since_probe, last_probe>>
    /\ UNCHANGED delivered
    /\ UNCHANGED <<envVars, mainVars, routerVars>>
    /\ UNCHANGED <<timedVars, notifyVars, pushVars>>
    /\ UNCHANGED auditVars

\* variant: `updated` is not set, the probe of health.rs:205 follows
AnalyzeFindsResponseThenPing ==
    /\ pc = "analyze"
    /\ Analysis(new_lines)[1] = "found"
    /\ elapsed' = 0
    /\ SERVER_HEALTH' = VerdictOfStatus(Analysis(new_lines)[2])
    /\ updated' = FALSE
    /\ ping_path' = "read"
    /\ since_probe' = 0
    /\ last_probe' = "read"
    /\ pc' = "ping"
    /\ UNCHANGED <<can_check, current_position, file_offset, new_lines,
                   ping_result>>
    /\ UNCHANGED delivered
    /\ UNCHANGED <<envVars, mainVars, routerVars>>
    /\ UNCHANGED <<timedVars, notifyVars, pushVars>>
    /\ ping_sends' = 1
    /\ UNCHANGED <<health_guard, ts_guard>>

\* health.rs:135-201: the newest response line sets the timestamp and the verdict
AnalyzeFindsResponse ==
    /\ pc = "analyze"
    /\ Analysis(new_lines)[1] = "found"
    /\ health_guard = "none"
    /\ elapsed' = 0
    /\ SERVER_HEALTH' = VerdictOfStatus(Analysis(new_lines)[2])
    /\ updated' = TRUE
    /\ pc' = "position"
    /\ UNCHANGED <<can_check, current_position, file_offset, new_lines,
                   ping_path, ping_result, since_probe, last_probe>>
    /\ UNCHANGED delivered
    /\ UNCHANGED <<envVars, mainVars, routerVars>>
    /\ UNCHANGED <<timedVars, notifyVars, pushVars>>
    /\ UNCHANGED auditVars

\* health.rs:205-208: no response line among the new lines, ping the backend
AnalyzeFindsNone ==
    /\ pc = "analyze"
    /\ Analysis(new_lines)[1] = "none"
    /\ ping_path' = "read"
    /\ since_probe' = 0
    /\ last_probe' = "read"
    /\ pc' = "ping"
    /\ UNCHANGED <<can_check, current_position, file_offset, new_lines,
                   updated, SERVER_HEALTH, elapsed, ping_result>>
    /\ UNCHANGED delivered
    /\ UNCHANGED <<envVars, mainVars, routerVars>>
    /\ UNCHANGED <<timedVars, notifyVars, pushVars>>
    /\ ping_sends' = 1
    /\ UNCHANGED <<health_guard, ts_guard>>

\* variant: the threshold of the comment at health.rs:322, 60 seconds
IdleLongEnough60(diff) == diff >= 2 * MAX_TIME_SPAN_IN_SECONDS

\* health.rs:323: if diff >= MAX_TIME_SPAN_IN_SECONDS
IdleLongEnough(diff) == diff >= MAX_TIME_SPAN_IN_SECONDS

\* health.rs:473-480: no new bytes and no timestamp yet: set it and ping
IdleFirstProbe ==
    /\ pc = "check"
    /\ ~can_check
    /\ elapsed = -1
    /\ elapsed' = 0
    /\ ping_path' = "first"
    /\ since_probe' = 0
    /\ last_probe' = "first"
    /\ pc' = "ping"
    /\ UNCHANGED <<can_check, current_position, file_offset, new_lines,
                   updated, SERVER_HEALTH, ping_result>>
    /\ UNCHANGED delivered
    /\ UNCHANGED <<envVars, mainVars, routerVars>>
    /\ UNCHANGED <<timedVars, notifyVars, pushVars>>
    /\ ping_sends' = 1
    /\ UNCHANGED <<health_guard, ts_guard>>

\* variant: the timestamp is not reset before the ping
IdleProbeNoReset ==
    /\ pc = "check"
    /\ ~can_check
    /\ elapsed # -1
    /\ IdleLongEnough(elapsed)
    /\ ping_path' = "idle"
    /\ since_probe' = 0
    /\ last_probe' = "idle"
    /\ pc' = "ping"
    /\ UNCHANGED <<can_check, current_position, file_offset, elapsed,
                   new_lines, updated, SERVER_HEALTH, ping_result>>
    /\ UNCHANGED delivered
    /\ UNCHANGED <<envVars, mainVars, routerVars>>
    /\ UNCHANGED <<timedVars, notifyVars, pushVars>>
    /\ ping_sends' = 1
    /\ ts_guard' = "write"
    /\ UNCHANGED health_guard

\* variant: the write guard on the verdict is taken with the one on the
\* timestamp, before the ping
IdleProbeUnderGuard ==
    /\ pc = "check"
    /\ ~can_check
    /\ elapsed # -1
    /\ IdleLongEnough(elapsed)
    /\ elapsed' = 0
    /\ ping_path' = "idle"
    /\ since_probe' = 0
    /\ last_probe' = "idle"
    /\ pc' = "ping"
    /\ UNCHANGED <<can_check, current_position, file_offset, new_lines,
                   updated, SERVER_HEALTH, ping_result>>
    /\ UNCHANGED delivered
    /\ UNCHANGED <<envVars, mainVars, routerVars>>
    /\ UNCHANGED <<timedVars, notifyVars, pushVars>>
    /\ ping_sends' = 1
    /\ ts_guard' = "write"
    /\ health_guard' =
          IF SERVER_HEALTH = "unset" THEN "none" ELSE "health_check"

\* health.rs:309-329: no new bytes, the idle window is over: reset it and ping
IdleProbe ==
    /\ pc = "check"
    /\ ~can_check
    /\ elapsed # -1
    /\ IdleLongEnough(elapsed)
    /\ elapsed' = 0
    /\ ping_path' = "idle"
    /\ since_probe' = 0
    /\ last_probe' = "idle"
    /\ pc' = "ping"
    /\ UNCHANGED <<can_check, current_position, file_offset, new_lines,
                   updated, SERVER_HEALTH, ping_result>>
    /\ UNCHANGED delivered
    /\ UNCHANGED <<envVars, mainVars, routerVars>>
    /\ UNCHANGED <<timedVars, notifyVars, pushVars>>
    /\ ping_sends' = 1
    /\ ts_guard' = "write"
    /\ UNCHANGED health_guard

\* variant: every poll that finds no new bytes refreshes the timestamp
IdleSkipRefreshes ==
    /\ pc = "check"
    /\ ~can_check
    /\ elapsed # -1
    /\ ~IdleLongEnough(elapsed)
    /\ elapsed' = 0
    /\ pc' = "sleep"
    /\ UNCHANGED <<can_check, current_position, file_offset, new_lines,
                   updated, SERVER_HEALTH, ping_path, ping_result,
                   since_probe, last_probe>>
    /\ UNCHANGED delivered
    /\ UNCHANGED <<envVars, mainVars, routerVars>>
    /\ UNCHANGED <<timedVars, notifyVars, pushVars>>
    /\ UNCHANGED auditVars

\* health.rs:309-323: no new bytes, the idle window is still running
IdleSkip ==
    /\ pc = "check"
    /\ ~can_check
    /\ elapsed # -1
    /\ ~IdleLongEnough(elapsed)
    /\ pc' = "sleep"
    /\ UNCHANGED <<can_check, current_position, file_offset, new_lines,
                   updated, SERVER_HEALTH, elapsed, ping_path, ping_result,
                   since_probe, last_probe>>
    /\ UNCHANGED delivered
    /\ UNCHANGED <<envVars, mainVars, routerVars>>
    /\ UNCHANGED <<timedVars, notifyVars, pushVars>>
    /\ UNCHANGED auditVars

\* variant: every answer but a success counts as a failed probe
HealthAfterPingStrict(path, r, h) == IF r = "success" THEN "true" ELSE "false"

\* variant: the body of a rejected probe is inspected at every call site
HealthAfterPingQdrantEverywhere(path, r, h) ==
    CASE r = "down" -> "false"
      [] r = "success" -> "true"
      [] r = "qdrant" -> "false"
      [] r = "rejected" -> "true"
      [] r = "bodyerr" -> h

\* variant: a transport error falls into the arm for other errors, whose
\* message holds no "Qdrant error:"
HealthAfterPingDownIgnored(path, r, h) ==
    CASE r = "down" -> "true"
      [] r = "success" -> "true"
      [] r # "down" /\ r # "success" /\ path # "idle" -> "true"
      [] path = "idle" /\ r = "qdrant" -> "false"
      [] path = "idle" /\ r = "rejected" -> "true"
      [] path = "idle" /\ r = "bodyerr" -> h

\* variant: a body that cannot be read counts as a failed probe
HealthAfterPingBodyErrorUnhealthy(path, r, h) ==
    CASE r = "down" -> "false"
      [] r = "success" -> "true"
      [] r # "down" /\ r # "success" /\ path # "idle" -> "true"
      [] path = "idle" /\ r = "qdrant" -> "false"
      [] path = "idle" /\ r = "rejected" -> "true"
      [] path = "idle" /\ r = "bodyerr" -> "false"

\* The verdict after ping_server returned outcome r at call site path, h being
\* the verdict before (health.rs:209-248, 330-428, 481-520).  ping_server
\* returns no error other than ServerDownError (health.rs:632-638), so the
\* third arm of each match is never taken.
HealthAfterPing(path, r, h) ==
    CASE r = "down" -> "false"
      [] r = "success" -> "true"
      [] r # "down" /\ r # "success" /\ path # "idle" -> "true"
      [] path = "idle" /\ r = "qdrant" -> "false"
      [] path = "idle" /\ r = "rejected" -> "true"
      [] path = "idle" /\ r = "bodyerr" -> h

\* where the loop goes on after a ping
AfterPing(path) == IF path = "read" THEN "position" ELSE "sleep"

\* variant: ping_server sends the request again when the send fails, up to
\* three times, before it returns
PingReturnsRetries ==
    /\ pc = "ping"
    /\ health_guard = "none"
    /\ \/ /\ ping_sends < 3
          /\ ping_sends' = ping_sends + 1
          /\ UNCHANGED <<pc, ping_result, SERVER_HEALTH, elapsed, since_probe,
                         written_ago, ts_guard>>
       \/ /\ \E r \in PingOutcomes : \E d \in PingSeconds :
                /\ ping_result' = r
                /\ SERVER_HEALTH' = HealthAfterPing(ping_path, r, SERVER_HEALTH)
                /\ elapsed' = Later(elapsed, d)
                /\ since_probe' = Later(since_probe, d)
                /\ written_ago' = Later(written_ago, d)
          /\ pc' = AfterPing(ping_path)
          /\ ts_guard' = "none"
          /\ UNCHANGED ping_sends
    /\ UNCHANGED <<can_check, current_position, file_offset, new_lines,
                   updated, ping_path, last_probe>>
    /\ UNCHANGED delivered
    /\ UNCHANGED <<envVars, mainVars, routerVars>>
    /\ UNCHANGED <<late, notifyVars, pushVars>>
    /\ UNCHANGED health_guard

\* ping_server returns (health.rs:608-640) and the caller stores the verdict
PingReturns ==
    /\ pc = "ping"
    /\ health_guard = "none"
    /\ \E r \in PingOutcomes : \E d \in PingSeconds :
          /\ ping_result' = r
          /\ SERVER_HEALTH' = HealthAfterPing(ping_path, r, SERVER_HEALTH)
          /\ elapsed' = Later(elapsed, d)
          /\ since_probe' = Later(since_probe, d)
          /\ written_ago' = Later(written_ago, d)
    /\ pc' = AfterPing(ping_path)
    /\ UNCHANGED <<can_check, current_position, file_offset, new_lines,
                   updated, ping_path, last_probe>>
    /\ UNCHANGED delivered
    /\ UNCHANGED <<envVars, mainVars, routerVars>>
    /\ UNCHANGED <<late, notifyVars, pushVars>>
    /\ ts_guard' = "none"
    /\ UNCHANGED <<ping_sends, health_guard>>

\* the backend accepted the request and never answers: reqwest::Client::new()
\* (health.rs:613) sets no timeout, send().await stays pending
PingHangs ==
    /\ pc = "ping"
    /\ pc' = "hung"
    /\ UNCHANGED <<can_check, current_position, file_offset, new_lines,
                   updated, SERVER_HEALTH, elapsed, ping_path, ping_result,
                   since_probe, last_probe>>
    /\ UNCHANGED delivered
    /\ UNCHANGED <<envVars, mainVars, routerVars>>
    /\ UNCHANGED <<timedVars, notifyVars, pushVars>>
    /\ UNCHANGED auditVars

\* variant: the cursor is set to the length of the batch
GetPositionBatchLength ==
    /\ pc = "position"
    /\ current_position' = Len(new_lines)
    /\ pc' = "sleep"
    /\ UNCHANGED <<can_check, file_offset, new_lines, updated,
                   SERVER_HEALTH, elapsed, ping_path, ping_result, since_probe,
                   last_probe>>
    /\ UNCHANGED delivered
    /\ UNCHANGED <<envVars, mainVars, routerVars>>
    /\ UNCHANGED <<timedVars, notifyVars, pushVars>>
    /\ UNCHANGED auditVars

\* variant: the position reached by the read is not recorded
GetPositionStale ==
    /\ pc = "position"
    /\ pc' = "sleep"
    /\ UNCHANGED <<can_check, current_position, file_offset, new_lines, updated,
                   SERVER_HEALTH, elapsed, ping_path, ping_result, since_probe,
                   last_probe>>
    /\ UNCHANGED delivered
    /\ UNCHANGED <<envVars, mainVars, routerVars>>
    /\ UNCHANGED <<timedVars, notifyVars, pushVars>>
    /\ UNCHANGED auditVars

\* health.rs:293-303
GetPosition ==
    /\ pc = "position"
    /\ current_position' = file_offset
    /\ pc' = "sleep"
    /\ UNCHANGED <<can_check, file_offset, new_lines, updated,
                   SERVER_HEALTH, elapsed, ping_path, ping_result, since_probe,
                   last_probe>>
    /\ UNCHANGED delivered
    /\ UNCHANGED <<envVars, mainVars, routerVars>>
    /\ UNCHANGED <<timedVars, notifyVars, pushVars>>
    /\ UNCHANGED auditVars

\* health.rs:567-603: sleep, look for new bytes, seek back; the locals of the
\* iteration go out of scope
Sleep ==
    /\ pc = "sleep"
    /\ elapsed' = Later(elapsed, Interval)
    /\ since_probe' = Later(since_probe, Interval)
    /\ can_check' = (Len(log) > current_position)
    /\ file_offset' = current_position
    /\ new_lines' = <<>>
    /\ updated' = FALSE
    /\ ping_path' = "none"
    /\ ping_result' = "none"
    /\ pc' = "check"
    /\ UNCHANGED <<current_position, SERVER_HEALTH, last_probe>>
    /\ UNCHANGED delivered
    /\ UNCHANGED <<envVars, mainVars, routerVars>>
    /\ written_ago' = Later(written_ago, Interval)
    /\ late' = 0
    /\ UNCHANGED <<notifyVars, pushVars>>
    /\ ping_sends' = 0
    /\ UNCHANGED <<health_guard, ts_guard>>

\* variant: the task ends without storing a verdict
TaskFailsVerdictKept ==
    /\ \/ pc = "check" /\ can_check
       \/ pc = "position"
       \/ pc = "sleep"
    /\ pc' = "failed"
    /\ LocalsDropped
    /\ UNCHANGED <<SERVER_HEALTH, elapsed, since_probe, last_probe>>
    /\ UNCHANGED delivered
    /\ UNCHANGED <<envVars, mainVars, routerVars>>
    /\ UNCHANGED <<timedVars, notifyVars, pushVars>>
    /\ UNCHANGED <<health_guard, ts_guard>>

\* variant: the error handler writes only into a cell that is set
TaskFailsOnlySetCell ==
    /\ \/ pc = "check" /\ can_check
       \/ pc = "position"
       \/ pc = "sleep"
    /\ SERVER_HEALTH' = IF SERVER_HEALTH = "unset" THEN "unset" ELSE "false"
    /\ pc' = "failed"
    /\ LocalsDropped
    /\ UNCHANGED <<elapsed, since_probe, last_probe>>
    /\ UNCHANGED delivered
    /\ UNCHANGED <<envVars, mainVars, routerVars>>
    /\ UNCHANGED <<timedVars, notifyVars, pushVars>>
    /\ UNCHANGED <<health_guard, ts_guard>>

\* A seek, read or position query on the log file fails (health.rs:113-128,
\* 294-303, 579-603): check_server_health returns Err and the task spawned by
\* main sets the verdict to false and ends (main.rs:341-363)
TaskFails ==
    /\ \/ pc = "check" /\ can_check
       \/ pc = "position"
       \/ pc = "sleep"
    /\ health_guard = "none"
    /\ SERVER_HEALTH' = "false"
    /\ pc' = "failed"
    /\ LocalsDropped
    /\ UNCHANGED <<elapsed, since_probe, last_probe>>
    /\ UNCHANGED delivered
    /\ UNCHANGED <<envVars, mainVars, routerVars>>
    /\ UNCHANGED <<timedVars, notifyVars, pushVars>>
    /\ UNCHANGED <<health_guard, ts_guard>>

-----------------------------------------------------------------------------
(* main: start-up and supervision of the spawned tasks *)

\* main.rs:91-104: parse --server-socket-addr, `?` returns the error
MainParseSocketAddr ==
    /\ main_pc = "parse_addr"
    /\ main_pc' = IF config.addr_ok THEN "check_log_file" ELSE "returned_err"
    /\ UNCHANGED <<config, spawned>>
    /\ UNCHANGED <<loopVars, envVars, routerVars, delivered>>
    /\ UNCHANGED <<timedVars, notifyVars, pushVars>>
    /\ UNCHANGED auditVars

\* variant: the log file is looked at only after the tasks were spawned
MainCheckLogFileLate ==
    /\ main_pc = "check_log_file"
    /\ main_pc' = IF config.log_file_ok THEN "joining" ELSE "returned_err"
    /\ spawned' = Tasks
    /\ pc' = "check"
    /\ n_pc' = "tick"
    /\ info_pc' = "retrieve"
    /\ UNCHANGED config
    /\ UNCHANGED <<can_check, current_position, file_offset, new_lines,
                   updated, SERVER_HEALTH, elapsed, ping_path, ping_result,
                   since_probe, last_probe>>
    /\ UNCHANGED <<envVars, routerVars, delivered>>
    /\ UNCHANGED <<timedVars, n_health, n_subs, n_last>>
    /\ UNCHANGED <<SERVER_INFO, info_subs, info_retry, info_sends, info_last>>
    /\ UNCHANGED auditVars

\* main.rs:106-111: the backend's log file must exist and be a file
MainCheckLogFile ==
    /\ main_pc = "check_log_file"
    /\ main_pc' = IF config.log_file_ok THEN "load_config" ELSE "returned_err"
    /\ UNCHANGED <<config, spawned>>
    /\ UNCHANGED <<loopVars, envVars, routerVars, delivered>>
    /\ UNCHANGED <<timedVars, notifyVars, pushVars>>
    /\ UNCHANGED auditVars

\* main.rs:116-228: device id from frpc.toml, domain from config.json
MainLoadConfig ==
    /\ main_pc = "load_config"
    /\ main_pc' = IF config.files_ok THEN "spawn" ELSE "returned_err"
    /\ UNCHANGED <<config, spawned>>
    /\ UNCHANGED <<loopVars, envVars, routerVars, delivered>>
    /\ UNCHANGED <<timedVars, notifyVars, pushVars>>
    /\ UNCHANGED auditVars

\* variant: main stores a verdict before it spawns the tasks
MainSpawnTasksPresetVerdict ==
    /\ main_pc = "spawn"
    /\ spawned' = Tasks
    /\ pc' = "check"
    /\ n_pc' = "tick"
    /\ info_pc' = "retrieve"
    /\ main_pc' = "joining"
    /\ SERVER_HEALTH' = "false"
    /\ UNCHANGED config
    /\ UNCHANGED <<can_check, current_position, file_offset, new_lines,
                   updated, elapsed, ping_path, ping_result,
                   since_probe, last_probe>>
    /\ UNCHANGED <<envVars, routerVars, delivered>>
    /\ UNCHANGED <<timedVars, n_health, n_subs, n_last>>
    /\ UNCHANGED <<SERVER_INFO, info_subs, info_retry, info_sends, info_last>>
    /\ UNCHANGED auditVars

\* main.rs:304-373: the three tokio::spawn calls; check_server_health
\* starts with the locals of health.rs:100-102
MainSpawnTasks ==
    /\ main_pc = "spawn"
    /\ spawned' = Tasks
    /\ pc' = "check"
    /\ n_pc' = "tick"
    /\ info_pc' = "retrieve"
    /\ main_pc' = "joining"
    /\ UNCHANGED config
    /\ UNCHANGED <<can_check, current_position, file_offset, new_lines,
                   updated, SERVER_HEALTH, elapsed, ping_path, ping_result,
                   since_probe, last_probe>>
    /\ UNCHANGED <<envVars, routerVars, delivered>>
    /\ UNCHANGED <<timedVars, n_health, n_subs, n_last>>
    /\ UNCHANGED <<SERVER_INFO, info_subs, info_retry, info_sends, info_last>>
    /\ UNCHANGED auditVars

\* main.rs:375-381: try_join! over the three JoinHandles ends with Err only
\* for a JoinError, that is when a task has panicked; a task that returns
\* Err(AssistantError) completes its handle with Ok, and try_join! goes on
\* waiting for periodic_notifications, which never returns
MainJoinFails ==
    /\ main_pc = "joining"
    /\ pc = "panicked"
    /\ main_pc' = "returned_err"
    /\ UNCHANGED <<config, spawned>>
    /\ UNCHANGED <<loopVars, envVars, routerVars, delivered>>
    /\ UNCHANGED <<timedVars, notifyVars, pushVars>>
    /\ UNCHANGED auditVars

MainNext ==
    \/ MainParseSocketAddr
    \/ MainCheckLogFile
    \/ MainLoadConfig
    \/ MainSpawnTasks
    \/ MainJoinFails

LoopNext ==
    \/ ReadNewLines
    \/ AnalyzePanics
    \/ AnalyzeFindsResponse
    \/ AnalyzeFindsNone
    \/ IdleFirstProbe
    \/ IdleProbe
    \/ IdleSkip
    \/ PingReturns
    \/ PingHangs
    \/ GetPosition
    \/ Sleep
    \/ TaskFails

\* the backend writes whole lines
EnvNext == AppendLine

\* the backend may also write a line in two pieces
SplitEnvNext ==
    \/ SplitAppendLine
    \/ AppendPrefix
    \/ AppendRest

-----------------------------------------------------------------------------
(* The notifier: periodic_notifications, spawned by main *)

\* main registers one URL for the health channel (main.rs:330-336); the
\* set passed to periodic_notifications may hold any number, and the
\* notifier is run over one and over two
HealthSubscriberLists == {<<"health-hub">>, <<"health-hub", "health-mirror">>}

\* how a POST to a subscriber ends: a success status, another status, or
\* an error of the transport
PostOutcomes == {"success", "nonsuccess", "transport"}

\* variant: a verdict that is unset is stored as false by the notifier
NotifyTickWritesVerdict ==
    /\ n_pc = "tick"
    /\ IF SERVER_HEALTH = "unset"
       THEN /\ SERVER_HEALTH' = "false"
            /\ UNCHANGED notifyVars
       ELSE /\ n_health' = SERVER_HEALTH
            /\ \E subs \in HealthSubscriberLists : n_subs' = subs
            /\ n_last' = NoPost
            /\ n_pc' = "post"
            /\ UNCHANGED SERVER_HEALTH
    /\ UNCHANGED <<pc, can_check, current_position, file_offset, new_lines,
                   updated, elapsed, ping_path, ping_result, since_probe,
                   last_probe>>
    /\ UNCHANGED <<envVars, mainVars, routerVars, delivered>>
    /\ UNCHANGED <<timedVars, pushVars>>
    /\ UNCHANGED auditVars

\* main.rs:674-690: the tick, the read of SERVER_HEALTH (`continue` while
\* it is unset) and the read of the subscriber set
NotifyTick ==
    /\ n_pc = "tick"
    /\ IF SERVER_HEALTH = "unset"
       THEN UNCHANGED notifyVars
       ELSE /\ health_guard = "none"
            /\ n_health' = SERVER_HEALTH
            /\ \E subs \in HealthSubscriberLists : n_subs' = subs
            /\ n_last' = NoPost
            /\ n_pc' = "post"
    /\ UNCHANGED <<loopVars, envVars, mainVars, routerVars, delivered>>
    /\ UNCHANGED <<timedVars, pushVars>>
    /\ UNCHANGED auditVars

\* variant: the SERVER_HEALTH cell is read again for every POST
NotifyPostRereads ==
    /\ n_pc = "post"
    /\ \E outcome \in PostOutcomes :
          n_last' = [url |-> Head(n_subs), health |-> SERVER_HEALTH,
                     outcome |-> outcome]
    /\ n_subs' = Tail(n_subs)
    /\ n_pc' = IF Tail(n_subs) = <<>> THEN "tick" ELSE "post"
    /\ n_health' = IF Tail(n_subs) = <<>> THEN "none" ELSE n_health
    /\ UNCHANGED <<loopVars, envVars, mainVars, routerVars, delivered>>
    /\ UNCHANGED <<timedVars, pushVars>>
    /\ UNCHANGED auditVars

\* variant: an error of the transport ends the tick
NotifyPostStopsOnError ==
    /\ n_pc = "post"
    /\ \E outcome \in PostOutcomes :
          /\ n_last' = [url |-> Head(n_subs), health |-> n_health,
                        outcome |-> outcome]
          /\ n_subs' = IF outcome = "transport" THEN <<>> ELSE Tail(n_subs)
    /\ n_pc' = IF n_subs' = <<>> THEN "tick" ELSE "post"
    /\ n_health' = IF n_subs' = <<>> THEN "none" ELSE n_health
    /\ UNCHANGED <<loopVars, envVars, mainVars, routerVars, delivered>>
    /\ UNCHANGED <<timedVars, pushVars>>
    /\ UNCHANGED auditVars

\* main.rs:691-707: one turn of the for loop: the POST of {health} to the
\* next URL; its outcome is only logged
NotifyPost ==
    /\ n_pc = "post"
    /\ \E outcome \in PostOutcomes :
          n_last' = [url |-> Head(n_subs), health |-> n_health,
                     outcome |-> outcome]
    /\ n_subs' = Tail(n_subs)
    /\ n_pc' = IF Tail(n_subs) = <<>> THEN "tick" ELSE "post"
    /\ n_health' = IF Tail(n_subs) = <<>> THEN "none" ELSE n_health
    /\ UNCHANGED <<loopVars, envVars, mainVars, routerVars, delivered>>
    /\ UNCHANGED <<timedVars, pushVars>>
    /\ UNCHANGED auditVars

NotifyNext == NotifyTick \/ NotifyPost

-----------------------------------------------------------------------------
(* The info push: retrieve_server_info and push_server_info, run by the     *)
(* task main spawns first                                                   *)

\* main registers one URL for the info channel (main.rs:296-302); the set
\* passed to push_server_info may hold any number
InfoSubscriberLists == {<<"info-hub">>, <<"info-hub", "info-mirror">>}

\* retries of push_server_info: `retry >= 3` at main.rs:576 and 596
MaxSendsPerUrl == 3

\* main.rs:393-509: GET /v1/info from the backend and augment the document;
\* a request that fails, a status that is no success, a body that does not
\* parse or lacks the server type make the task return Err
RetrieveFetch ==
    /\ info_pc = "retrieve"
    /\ info_pc' \in {"store", "failed"}
    /\ UNCHANGED <<SERVER_INFO, info_subs, info_retry, info_sends, info_last>>
    /\ UNCHANGED <<loopVars, envVars, mainVars, routerVars, delivered>>
    /\ UNCHANGED <<timedVars, notifyVars>>
    /\ UNCHANGED auditVars

\* variant: the document is written over the one that is stored
RetrieveStoreOverwrites ==
    /\ info_pc = "store"
    /\ SERVER_INFO' = [by |-> "push_info", augmented |-> 1]
    /\ info_pc' = "stored"
    /\ UNCHANGED <<info_subs, info_retry, info_sends, info_last>>
    /\ UNCHANGED <<loopVars, envVars, mainVars, routerVars, delivered>>
    /\ UNCHANGED <<timedVars, notifyVars>>
    /\ UNCHANGED auditVars

\* main.rs:511-522: SERVER_INFO.set; on a cell that is set it returns Err
\* and the task ends
RetrieveStore ==
    /\ info_pc = "store"
    /\ IF SERVER_INFO = NoInfo
       THEN /\ SERVER_INFO' = [by |-> "push_info", augmented |-> 1]
            /\ info_pc' = "stored"
       ELSE /\ UNCHANGED SERVER_INFO
            /\ info_pc' = "rejected"
    /\ UNCHANGED <<info_subs, info_retry, info_sends, info_last>>
    /\ UNCHANGED <<loopVars, envVars, mainVars, routerVars, delivered>>
    /\ UNCHANGED <<timedVars, notifyVars>>
    /\ UNCHANGED auditVars

\* main.rs:526-558: push_server_info reads the subscriber set and the cell
\* and enters the loop over the URLs with retry = 0
PushStart ==
    /\ info_pc = "stored"
    /\ \E subs \in InfoSubscriberLists : info_subs' = subs
    /\ info_retry' = 0
    /\ info_sends' = <<0>>
    /\ info_pc' = "push"
    /\ UNCHANGED <<SERVER_INFO, info_last>>
    /\ UNCHANGED <<loopVars, envVars, mainVars, routerVars, delivered>>
    /\ UNCHANGED <<timedVars, notifyVars>>
    /\ UNCHANGED auditVars

\* the loop over the URLs goes on to the next URL, or push_server_info
\* returns Ok (main.rs:558-609)
NextUrl(sends) ==
    /\ info_subs' = Tail(info_subs)
    /\ info_retry' = 0
    /\ IF Tail(info_subs) = <<>>
       THEN info_pc' = "done" /\ info_sends' = sends
       ELSE info_pc' = "push" /\ info_sends' = Append(sends, 0)

\* one request of the retry loop and what follows it, with `limit` in the
\* place of the 3 of main.rs:576 and 596
PushAttemptUpTo(limit) ==
    /\ info_pc = "push"
    /\ LET sends == [info_sends EXCEPT ![Len(info_sends)] = @ + 1] IN
       \E outcome \in PostOutcomes :
          /\ info_last' = outcome
          /\ CASE outcome = "success" -> NextUrl(sends)
               [] outcome = "transport" ->
                    IF info_retry + 1 >= limit
                    THEN /\ info_pc' = "failed"
                         /\ info_sends' = sends
                         /\ UNCHANGED <<info_subs, info_retry>>
                    ELSE /\ info_retry' = info_retry + 1
                         /\ info_sends' = sends
                         /\ UNCHANGED <<info_pc, info_subs>>
               [] outcome = "nonsuccess" ->
                    IF info_retry + 1 >= limit
                    THEN NextUrl(sends)
                    ELSE /\ info_retry' = info_retry + 1
                         /\ info_sends' = sends
                         /\ UNCHANGED <<info_pc, info_subs>>
    /\ UNCHANGED SERVER_INFO
    /\ UNCHANGED <<loopVars, envVars, mainVars, routerVars, delivered>>
    /\ UNCHANGED <<timedVars, notifyVars>>
    /\ UNCHANGED auditVars

\* variant: a third error of the transport gives the URL up like a third
\* status that is no success
PushAttemptSkipsUrl ==
    /\ info_pc = "push"
    /\ LET sends == [info_sends EXCEPT ![Len(info_sends)] = @ + 1] IN
       \E outcome \in PostOutcomes :
          /\ info_last' = outcome
          /\ IF outcome = "success" \/ info_retry + 1 >= MaxSendsPerUrl
             THEN NextUrl(sends)
             ELSE /\ info_retry' = info_retry + 1
                  /\ info_sends' = sends
                  /\ UNCHANGED <<info_pc, info_subs>>
    /\ UNCHANGED SERVER_INFO
    /\ UNCHANGED <<loopVars, envVars, mainVars, routerVars, delivered>>
    /\ UNCHANGED <<timedVars, notifyVars>>
    /\ UNCHANGED auditVars

\* variant: a fourth request is made before giving up
PushAttemptFourTimes == PushAttemptUpTo(MaxSendsPerUrl + 1)

\* main.rs:559-607
PushAttempt == PushAttemptUpTo(MaxSendsPerUrl)

PushNext ==
    \/ RetrieveFetch
    \/ RetrieveStore
    \/ PushStart
    \/ PushAttempt

-----------------------------------------------------------------------------
(* The request router.  Its handlers are not part of the sources; they are   *)
(* modelled after section 4.5 of the specification and answer with the      *)
(* responses error.rs builds.                                               *)

\* the message arguments the handlers pass to the builders of error.rs
Messages ==
    {"", "Server is not healthy", "Failed to get server info", "/unknown"}

\* statuses of the responses the backend itself gives to a forwarded request
BackendStatuses == {200, 503}

\* the response sent for a request to `path`; forwarded tells whether the
\* request was sent on to the backend
Sent(path, response, forwarded) ==
    [path |-> path, status |-> response.status, headers |-> response.headers,
     body |-> response.body, forwarded |-> forwarded]

\* the backend writes one whole line, in the runs with the router
RouterAppendLine ==
    /\ partial = <<>>
    /\ LinesWritten < MaxRouterLines
    /\ \E t \in LineTemplates : log' = log \o t \o <<NL>>
    /\ UNCHANGED partial
    /\ UNCHANGED loopVars
    /\ UNCHANGED <<delivered, mainVars, routerVars>>
    /\ UNCHANGED <<timedVars, notifyVars, pushVars>>
    /\ UNCHANGED auditVars

\* GET /health: answered from SERVER_HEALTH
HandleHealth ==
    /\ main_pc = "joining"
    /\ last_response' =
          IF SERVER_HEALTH = "true"
          THEN Sent("/health",
                    [status |-> 200, headers |-> {}, body |-> <<"OK">>],
                    FALSE)
          ELSE Sent("/health",
                    internal_server_error("Server is not healthy"), FALSE)
    /\ UNCHANGED <<loopVars, envVars, mainVars, delivered>>
    /\ UNCHANGED <<timedVars, notifyVars, pushVars>>
    /\ UNCHANGED auditVars

\* /v1/*: forwarded to the backend; its response is passed on, and a request
\* that cannot be sent or answered gives a 500 of the router's own
HandleProxy ==
    /\ main_pc = "joining"
    /\ \/ \E st \in BackendStatuses :
             last_response' =
                 Sent("/v1/models",
                      [status |-> st, headers |-> {},
                       body |-> <<"backend">>],
                      TRUE)
       \/ \E msg \in Messages :
             last_response' =
                 Sent("/v1/models", internal_server_error(msg), TRUE)
    /\ UNCHANGED <<loopVars, envVars, mainVars, delivered>>
    /\ UNCHANGED <<timedVars, notifyVars, pushVars>>
    /\ UNCHANGED auditVars

\* any other path: 404
HandleUnknown ==
    /\ main_pc = "joining"
    /\ \E msg \in Messages :
          last_response' = Sent("/unknown", invalid_endpoint(msg), FALSE)
    /\ UNCHANGED <<loopVars, envVars, mainVars, delivered>>
    /\ UNCHANGED <<timedVars, notifyVars, pushVars>>
    /\ UNCHANGED auditVars

\* GET /v1/info: the document is fetched from the backend, augmented and
\* stored if the cell is unset; the cached document is returned otherwise
HandleInfo ==
    /\ main_pc = "joining"
    /\ IF SERVER_INFO = NoInfo
       THEN \/ /\ SERVER_INFO' = [by |-> "router", augmented |-> 1]
               /\ last_response' =
                     Sent("/v1/info",
                          [status |-> 200, headers |-> {},
                           body |-> <<"info">>],
                          TRUE)
            \/ /\ UNCHANGED SERVER_INFO
               /\ last_response' =
                     Sent("/v1/info",
                          internal_server_error("Failed to get server info"),
                          TRUE)
       ELSE /\ UNCHANGED SERVER_INFO
            /\ last_response' =
                  Sent("/v1/info",
                       [status |-> 200, headers |-> {}, body |-> <<"info">>],
                       FALSE)
    /\ UNCHANGED <<info_pc, info_subs, info_retry, info_sends, info_last>>
    /\ UNCHANGED <<loopVars, envVars, mainVars, delivered>>
    /\ UNCHANGED <<timedVars, notifyVars>>
    /\ UNCHANGED auditVars

RouterNext ==
    \/ HandleHealth
    \/ HandleInfo
    \/ HandleProxy
    \/ HandleUnknown

\* main, the health task and the router beside a backend that writes lines
RouterSpecNext == MainNext \/ LoopNext \/ RouterAppendLine \/ RouterNext

RouterSpec == Init /\ [][RouterSpecNext]_vars

Next == MainNext \/ LoopNext \/ EnvNext

Spec == Init /\ [][Next]_vars

\* the runs in which a poll may see a line the backend has written in part
SplitNext == MainNext \/ LoopNext \/ SplitEnvNext

SplitSpec == Init /\ [][SplitNext]_vars

\* the lines the backend writes in the runs with all tasks: a response with
\* 500 and a response whose timestamp does not parse
TaskLineTemplates ==
    {t \in LineTemplates :
        /\ Len(t) = 3
        /\ t[2] = RespPrefix
        /\ t[1] = BadTsHeader \/ t[3] = "500"}

\* the backend writes one whole line, in the runs with all tasks
TaskAppendLine ==
    /\ partial = <<>>
    /\ LinesWritten < MaxTaskLines
    /\ \E t \in TaskLineTemplates : log' = log \o t \o <<NL>>
    /\ UNCHANGED partial
    /\ UNCHANGED loopVars
    /\ UNCHANGED <<delivered, mainVars, routerVars>>
    /\ UNCHANGED <<timedVars, notifyVars, pushVars>>
    /\ UNCHANGED auditVars

\* main with its three tasks
TasksNext ==
    \/ MainNext
    \/ LoopNext
    \/ NotifyNext
    \/ PushNext
    \/ TaskAppendLine

TasksSpec == Init /\ [][TasksNext]_vars

\* main, the health task and the notifier
NotifySpecNext ==
    \/ MainNext
    \/ LoopNext
    \/ NotifyNext
    \/ TaskAppendLine

NotifySpec == Init /\ [][NotifySpecNext]_vars

\* main, the health task, the info push and the /v1/info handler, which
\* stores into the same cell
InfoSpecNext ==
    \/ MainNext
    \/ LoopNext
    \/ PushNext
    \/ HandleInfo
    \/ TaskAppendLine

InfoSpec == Init /\ [][InfoSpecNext]_vars

\* the runs that keep track of when the backend wrote
TimedNext == MainNext \/ LoopNext \/ TimedAppendLine

TimedSpec == Init /\ [][TimedNext]_vars

\* the runtime keeps scheduling main and the health task while they can take
\* a step
FairSpec == Spec /\ WF_vars(LoopNext) /\ WF_vars(MainNext)

-----------------------------------------------------------------------------
(* Vocabulary of the claims: the events of the specification, read off the  *)
(* log independently of the loop's own scan                                 *)

IsEndpoint(line) ==
    /\ from_str(line) = "ok"
    /\ custom_message(line) # <<>>
    /\ custom_message(line)[1] = "endpoint:"

IsEvent(line) == IsEndpoint(line) \/ IsResponse(line)

\* the lines of the batch read in this iteration
Batch == Lines(new_lines)

\* all lines the loop has read since it started
Observed == Lines(SubSeq(log, 1, file_offset))

\* index in Observed of the i-th line of Batch
InObserved(i) == Len(Observed) - Len(Batch) + i

\* the iteration has read the log and stored its verdict
BatchProcessed == pc \in {"position", "sleep"} /\ can_check

Newest(S) == CHOOSE i \in S : \A j \in S : j <= i

ResponsesIn(lines) == {i \in 1..Len(lines) : IsResponse(lines[i])}

EventsBefore(lines, k) == {j \in 1..(k - 1) : IsEvent(lines[j])}

\* a request is pending before line k: the newest event before it is a
\* request that no response has answered
PendingBefore(lines, k) ==
    /\ EventsBefore(lines, k) # {}
    /\ IsEndpoint(lines[Newest(EventsBefore(lines, k))])

\* the code of the newest response line of the batch
NewestCode == status_code(Batch[Newest(ResponsesIn(Batch))])

\* the newest response line of the batch answers a pending request
NewestResponsePaired ==
    /\ ResponsesIn(Batch) # {}
    /\ PendingBefore(Observed, InObserved(Newest(ResponsesIn(Batch))))

\* endpoint, response 200, endpoint, response 200, ...
PairsOnly(lines) ==
    /\ Len(lines) > 0
    /\ Len(lines) % 2 = 0
    /\ \A i \in 1..Len(lines) :
          IF i % 2 = 1
          THEN IsEndpoint(lines[i])
          ELSE IsResponse(lines[i]) /\ status_code(lines[i]) = "200"

\* a step of the loop that calls ping_server
ProbeIssued == pc # "ping" /\ pc' = "ping"

\* a step of the loop in which ping_server returns
ProbeAnswered == pc = "ping" /\ pc' \in {"position", "sleep"}

-----------------------------------------------------------------------------
\* C1: after the loop has processed a batch that consists only of pairs
\* 'endpoint:' then 'response_status: 200', SERVER_HEALTH is true.
C1_PairsOf200Healthy ==
    (BatchProcessed /\ PairsOnly(Batch)) => SERVER_HEALTH = "true"

\* a pair was processed after an earlier batch had made the verdict false
C1_Witness ==
    /\ pc = "sleep"
    /\ can_check
    /\ PairsOnly(Batch)
    /\ Len(Observed) = Len(Batch) + 1
    /\ IsResponse(Observed[1]) /\ status_code(Observed[1]) = "500"
    /\ current_position = Len(log)
    /\ SERVER_HEALTH = "true"

SecondRequestInBatch ==
    \E i \in 1..Len(Batch) :
        IsEndpoint(Batch[i]) /\ PendingBefore(Observed, InObserved(i))

\* the newest event of the batch is such a request
SecondRequestNewest ==
    LET ev == {i \in 1..Len(Batch) : IsEvent(Batch[i])}
    IN  /\ ev # {}
        /\ IsEndpoint(Batch[Newest(ev)])
        /\ PendingBefore(Observed, InObserved(Newest(ev)))

\* C3 as stated: once the loop has processed a batch whose newest event is an
\* 'endpoint:' line that starts while the previous request is unanswered,
\* SERVER_HEALTH is false.
C3_SecondRequestUnhealthy ==
    (BatchProcessed /\ SecondRequestNewest) => SERVER_HEALTH = "false"

\* C3 amended: an 'endpoint:' line that starts while the previous request is
\* unanswered does not set the verdict; after the iteration that read it the
\* verdict is that of the newest response line of the batch (false iff its
\* code is "500") and, when the batch holds no response line, that of the
\* probe the iteration issued (false iff the probe failed to reach the backend).
C3_SecondRequestIgnored ==
    (BatchProcessed /\ SecondRequestInBatch) =>
        SERVER_HEALTH =
            IF ResponsesIn(Batch) # {}
            THEN (IF NewestCode = "500" THEN "false" ELSE "true")
            ELSE (IF ping_result = "down" THEN "false" ELSE "true")

\* two requests in a row, the probe is rejected, the verdict is true
C3_Witness ==
    /\ pc = "sleep"
    /\ can_check
    /\ Len(Batch) = 2
    /\ IsEndpoint(Batch[1])
    /\ IsEndpoint(Batch[2])
    /\ SecondRequestNewest
    /\ ping_result = "rejected"
    /\ SERVER_HEALTH = "true"

\* C4 as stated: once the loop has processed a batch whose newest response
\* line answers no pending request, SERVER_HEALTH is false whatever the code.
C4_UnpairedResponseUnhealthy ==
    (BatchProcessed /\ ResponsesIn(Batch) # {} /\ ~NewestResponsePaired)
        => SERVER_HEALTH = "false"

\* C4 amended: a response line that answers no pending request sets the
\* verdict from its status code alone, as a paired one does: false if the
\* code is "500", true otherwise.
C4_UnpairedResponseByCode ==
    (BatchProcessed /\ ResponsesIn(Batch) # {} /\ ~NewestResponsePaired)
        => SERVER_HEALTH = (IF NewestCode = "500" THEN "false" ELSE "true")

\* the first line the loop ever reads is a 200 response: the verdict is true
C4_Witness ==
    /\ pc = "sleep"
    /\ can_check
    /\ Len(Observed) = 1
    /\ Len(Batch) = 1
    /\ IsResponse(Batch[1])
    /\ status_code(Batch[1]) = "200"
    /\ ~NewestResponsePaired
    /\ SERVER_HEALTH = "true"

\* C5 as stated: after a paired response the verdict is true exactly when the
\* code is "200".
C5_PairedTrueIff200 ==
    (BatchProcessed /\ NewestResponsePaired) =>
        /\ SERVER_HEALTH \in {"true", "false"}
        /\ (SERVER_HEALTH = "true") <=> (NewestCode = "200")

\* C5 amended: after a paired response the verdict is false exactly when the
\* code is "500"; every other code, 404 as well as 200, makes it true.
C5_PairedFalseIff500 ==
    (BatchProcessed /\ NewestResponsePaired) =>
        /\ SERVER_HEALTH \in {"true", "false"}
        /\ (SERVER_HEALTH = "false") <=> (NewestCode = "500")

\* a request answered by 404 leaves the verdict true
C5_Witness ==
    /\ pc = "sleep"
    /\ can_check
    /\ NewestResponsePaired
    /\ NewestCode = "404"
    /\ SERVER_HEALTH = "true"

\* the idle window of an iteration that found no new bytes is over
WindowOver == elapsed = -1 \/ elapsed >= MAX_TIME_SPAN_IN_SECONDS

\* C6 as stated: ping_server is called only by an iteration that read no bytes
\* and found the idle window over (an unset timestamp is granted to be old
\* enough).
C6_ProbeOnlyWhenIdle ==
    [][ProbeIssued => (new_lines = <<>> /\ WindowOver)]_vars

\* C6 amended: an iteration that found no new log bytes calls ping_server
\* exactly when the timestamp is unset or at least MAX_TIME_SPAN_IN_SECONDS
\* old; an iteration that read the log calls it too, and only when the lines
\* it read hold no response line.
C6_ProbeWhenIdleOrNoResponse ==
    [][ /\ (pc = "check" /\ ~can_check /\ pc' # "check")
            => ((pc' = "ping") <=> WindowOver)
        /\ (ProbeIssued /\ ~(pc = "check" /\ ~can_check))
            => (pc = "analyze" /\ ResponsesIn(Batch) = {}) ]_vars

\* a probe issued right after reading new lines, inside the idle window
C6_Witness ==
    /\ pc = "ping"
    /\ ping_path = "read"
    /\ Batch # <<>>
    /\ elapsed >= 0
    /\ elapsed < MAX_TIME_SPAN_IN_SECONDS

\* C7 as stated: while the log does not grow, a probe is issued no sooner than
\* MAX_TIME_SPAN_IN_SECONDS after the previous one.
C7_ProbesOneWindowApart ==
    [][(ProbeIssued /\ log = <<>> /\ since_probe # -1)
          => since_probe >= MAX_TIME_SPAN_IN_SECONDS]_vars

\* C7 amended: a probe issued by an iteration that found no new bytes resets
\* the idle clock before the attempt, and it is at least
\* MAX_TIME_SPAN_IN_SECONDS after the previous probe whenever that one was
\* issued by such an iteration too; a probe issued after reading the log does
\* not reset the clock.
C7_IdleProbesOneWindowApart ==
    [][ /\ (pc = "check" /\ pc' = "ping")
            => /\ elapsed' = 0
               /\ last_probe \in {"idle", "first"}
                     => since_probe >= MAX_TIME_SPAN_IN_SECONDS
        /\ (pc = "analyze" /\ pc' = "ping") => elapsed' = elapsed ]_vars

\* the idle window after an idle probe is over and the next probe is due
C7_Witness ==
    /\ pc = "check"
    /\ ~can_check
    /\ last_probe = "idle"
    /\ since_probe >= MAX_TIME_SPAN_IN_SECONDS
    /\ elapsed >= MAX_TIME_SPAN_IN_SECONDS

NonSuccess == {"qdrant", "rejected", "bodyerr"}

\* C8 as stated: a probe answered with a non-success status sets the verdict
\* to false.
C8_RejectedProbeUnhealthy ==
    [][(ProbeAnswered /\ ping_result' \in NonSuccess)
          => SERVER_HEALTH' = "false"]_vars

\* C8 amended: a probe answered with a non-success status sets the verdict to
\* false only when it is an idle-window probe whose body contains
\* "Qdrant error:"; an idle-window probe whose body cannot be read leaves the
\* verdict as it was; every other non-success answer sets it to true.
C8_RejectedProbeByCallSite ==
    [][(ProbeAnswered /\ ping_result' \in NonSuccess) =>
          SERVER_HEALTH' =
             IF ping_path = "idle"
             THEN (IF ping_result' = "qdrant" THEN "false"
                   ELSE IF ping_result' = "rejected" THEN "true"
                   ELSE SERVER_HEALTH)
             ELSE "true"]_vars

\* a probe issued after reading the log is rejected with a Qdrant error and
\* the verdict is true
C8_Witness ==
    /\ pc = "position"
    /\ ping_path = "read"
    /\ ping_result = "qdrant"
    /\ SERVER_HEALTH = "true"

\* C9: when ping_server fails with ServerDownError the verdict becomes false
\* and the loop goes on with the rest of the iteration.
C9_DownProbeUnhealthyLoopGoesOn ==
    [][(pc = "ping" /\ ping_result' = "down")
          => (SERVER_HEALTH' = "false" /\ pc' \in {"position", "sleep"})]_vars

\* an idle-window probe failed after the verdict had been true
C9_Witness ==
    /\ pc = "sleep"
    /\ ping_path = "idle"
    /\ ping_result = "down"
    /\ SERVER_HEALTH = "false"
    /\ Observed # <<>>
    /\ IsResponse(Observed[Len(Observed)])
    /\ status_code(Observed[Len(Observed)]) = "200"

\* C10 as stated: a call of ping_server always comes back, so the loop goes on.
C10_ProbeComesBack == (pc = "ping") ~> (pc \in {"position", "sleep"})

-----------------------------------------------------------------------------
(* Reading the log file *)

IsPrefixOf(a, b) == Len(a) <= Len(b) /\ a = SubSeq(b, 1, Len(a))

\* the loop has looked at the file size and found nothing beyond the bytes
\* it has consumed
FoundNoGrowth == pc = "sleep" /\ pc' = "check" /\ Len(log) = current_position

\* the iteration that follows a look at the file size runs the idle branch
IdleIteration == pc = "check" /\ ~can_check /\ pc' \in {"ping", "sleep"}

\* the iteration reads the file
ReadIteration == pc = "check" /\ pc' = "analyze"

\* C11: when the end of the file equals current_position the iteration that
\* follows reads nothing and hands nothing to the line analysis, poll after
\* poll; what an iteration does read are exactly the bytes of the file that
\* lie behind all the bytes handed over before, so no byte is parsed again
C11_NoGrowthNoBytes ==
    [][ /\ FoundNoGrowth => ~can_check'
        /\ IdleIteration =>
              /\ delivered' = delivered
              /\ new_lines' = <<>>
              /\ file_offset' = file_offset
              /\ current_position' = current_position
        /\ ReadIteration =>
              /\ new_lines' = SubSeq(log, Len(delivered) + 1, Len(log))
              /\ delivered' = SubSeq(log, 1, Len(log)) ]_vars

\* two polls in a row found no growth after a batch had been consumed
C11_Witness ==
    /\ pc = "sleep"
    /\ ~can_check
    /\ delivered # <<>>
    /\ delivered = log
    /\ current_position = Len(log)
    /\ elapsed >= 2 * Interval

\* the health loop is between two iterations
BetweenIterations == pc \in {"check", "sleep"}

\* C12: whatever the backend appends and whenever, in whole lines or in
\* pieces, the bytes handed to the line analysis by all polls together are
\* the bytes of the log in file order, none twice and none left out up to
\* the position the loop has consumed
C12_EveryByteOnceInOrder ==
    /\ IsPrefixOf(delivered, log)
    /\ BetweenIterations => Len(delivered) = current_position
    /\ pc \in {"analyze", "ping", "hung", "position"} =>
          Len(delivered) = file_offset

\* a second poll has taken over in the middle of a line and has delivered
\* the rest of the log
C12_Witness ==
    /\ pc = "sleep"
    /\ can_check
    /\ delivered = log
    /\ new_lines # <<>>
    /\ Len(new_lines) < Len(delivered)
    /\ delivered[Len(delivered) - Len(new_lines)] # NL

\* the last line of the batch is a piece of a line: the backend has written
\* or will write further tokens of it
LastLineCut ==
    /\ new_lines # <<>>
    /\ new_lines[Len(new_lines)] # NL
    /\ IF Len(log) > file_offset
          THEN log[file_offset + 1] # NL
          ELSE partial # <<>> /\ Head(partial) # NL

\* C13: a line whose bytes reach the file in two pieces is classified only
\* once it is whole: the piece a poll reads before the rest is written is
\* never taken for a response and never decides the verdict
C13_TruncatedPrefixNoEvent ==
    (pc = "position" /\ updated /\ LastLineCut) =>
        ~IsResponse(Batch[Len(Batch)])

-----------------------------------------------------------------------------
(* Lines the parser cannot use *)

Unmatched(lines) == {i \in 1..Len(lines) : ~MatchesGrammar(lines[i])}

\* the batch without the lines that do not match the grammar
Kept == SelectSeq(Batch, MatchesGrammar)

\* the line analysis of this iteration ends
AnalysisEnds == pc = "analyze" /\ pc' # "analyze"

\* a verdict is stored, and the probe of an iteration that read nothing but
\* unmatched lines returns
ProbeAfterUnmatchedOnly ==
    /\ SERVER_HEALTH # "unset"
    /\ pc = "ping"
    /\ pc' # "ping"
    /\ ping_path = "read"
    /\ Batch # <<>>
    /\ Unmatched(Batch) = 1..Len(Batch)

\* C14 as stated: an iteration whose new lines all fail the grammar leaves
\* the stored verdict as it was
C14_UnmatchedLineChangesNothing ==
    [][ProbeAfterUnmatchedOnly => SERVER_HEALTH' = SERVER_HEALTH]_vars

\* C14: a line that does not match the grammar is skipped by the scan: the
\* analysis of a batch that holds such lines stores the verdict and the
\* timestamp, goes on to the probe, or panics, exactly as the scan of the
\* batch without them does, and never ends the loop on their account
C14_UnmatchedLineSkipped ==
    [][ (AnalysisEnds /\ Unmatched(Batch) # {}) =>
          LET r == Scan(Kept, Len(Kept)) IN
            /\ (\A i \in 1..Len(Kept) : Kept[i][1] # BadTsHeader)
                  => pc' # "panicked"
            /\ r[1] = "panic" => pc' = "panicked"
            /\ r[1] = "found" =>
                  /\ pc' = "position"
                  /\ SERVER_HEALTH' = (IF r[2] = "500" THEN "false" ELSE "true")
                  /\ elapsed' = 0
            /\ r[1] = "none" =>
                  /\ pc' = "ping"
                  /\ SERVER_HEALTH' = SERVER_HEALTH
                  /\ elapsed' = elapsed ]_vars

\* a batch whose newest line does not match and whose response line before
\* it carries 500 has been analysed
C14_Witness ==
    /\ pc = "position"
    /\ updated
    /\ Len(Batch) \in Unmatched(Batch)
    /\ SERVER_HEALTH = "false"
    /\ elapsed = 0

\* C15: a line that matches the grammar but carries a timestamp that does
\* not parse is dropped like any other unusable line: the health task never
\* panics on it and main never returns because of it
C15_BadTimestampDropped ==
    /\ pc # "panicked"
    /\ spawned # {} => main_pc # "returned_err"

-----------------------------------------------------------------------------
(* Failures of the log file *)

\* C16: once a seek, read or position query on the log file has failed and
\* the health loop has ended, main stops waiting for its tasks and returns
\* an error
C16_FileFailureReachesMain == (pc = "failed") ~> (main_pc = "returned_err")

\* C17 as stated: a file operation that fails does not end the health loop
C17_ReadFailureLoopGoesOn == pc # "failed"

\* the places where the loop operates on the file: the seek and the read
\* (only when new bytes were seen), the position query, the look at the size
AtFileOperation ==
    \/ pc = "check" /\ can_check
    \/ pc = "position"
    \/ pc = "sleep"

\* C17: a file operation that fails is told apart from 'no new data' (an
\* iteration that saw no new bytes performs no read and cannot fail there)
\* and counts as a failed health signal, the verdict becoming false; it ends
\* the health loop for good: no later step polls the file, and the verdict
\* stays false
C17_FileFailureEndsLoop ==
    [][ /\ (pc # "failed" /\ pc' = "failed") =>
              /\ AtFileOperation
              /\ SERVER_HEALTH' = "false"
        /\ pc = "failed" =>
              /\ pc' = "failed"
              /\ delivered' = delivered
              /\ SERVER_HEALTH' = "false" ]_vars

\* the loop has ended on a file failure and bytes written since are left
\* unread while main keeps waiting
C17_Witness ==
    /\ pc = "failed"
    /\ SERVER_HEALTH = "false"
    /\ delivered # <<>>
    /\ Len(log) > Len(delivered)
    /\ main_pc = "joining"

-----------------------------------------------------------------------------
(* Start-up *)

\* the socket address does not parse, or the log file path is missing or is
\* not a file
ConfigError == ~config.addr_ok \/ ~config.log_file_ok

\* C18: with a socket address that does not parse or a log file path that
\* is no file, main is before the check that fails or has returned an error
\* from it: no task is ever spawned and the health loop never runs
C18_ConfigErrorNothingSpawned ==
    ConfigError =>
        /\ spawned = {}
        /\ pc = "unspawned"
        /\ \/ main_pc = "parse_addr"
           \/ main_pc = "check_log_file" /\ config.addr_ok
           \/ main_pc = "returned_err"

\* main has returned at the check of the log file path
C18_Witness ==
    /\ config.addr_ok
    /\ ~config.log_file_ok
    /\ main_pc = "returned_err"
    /\ spawned = {}

-----------------------------------------------------------------------------
(* The router's responses *)

\* a request to /health has just been answered
HealthAnswered ==
    /\ last_response' # last_response
    /\ last_response'.path = "/health"

\* C19: a request to /health is answered from the verdict alone: 200 "OK"
\* when it is true, a response of the 500 class with a body that says why
\* otherwise; the request is not sent to the backend and neither the verdict
\* nor anything else of the health loop changes
C19_HealthFromVerdictAlone ==
    [][HealthAnswered =>
          /\ SERVER_HEALTH = "true" =>
                /\ last_response'.status = 200
                /\ last_response'.body = <<"OK">>
          /\ SERVER_HEALTH # "true" =>
                /\ last_response'.status \in 500..599
                /\ Len(last_response'.body) > 1
          /\ ~last_response'.forwarded
          /\ SERVER_HEALTH' = SERVER_HEALTH
          /\ UNCHANGED <<loopVars, envVars, delivered>> ]_vars

\* /health has answered with a failure while the verdict taken from the log
\* is false
C19_Witness ==
    /\ last_response.path = "/health"
    /\ last_response.status = INTERNAL_SERVER_ERROR
    /\ SERVER_HEALTH = "false"
    /\ elapsed = 0

\* the response carries the three permissive headers
CarriesCors(response) ==
    \A name \in {"Access-Control-Allow-Origin",
                  "Access-Control-Allow-Methods",
                  "Access-Control-Allow-Headers"} :
        <<name, "*">> \in response.headers

\* C20: a response with status 500 or 404 built by the assistant carries
\* the three Access-Control-Allow headers with the value "*" and the text of
\* its status, whatever the message, the empty one included
C20_ErrorResponsesCarryCors ==
    /\ last_response.status = INTERNAL_SERVER_ERROR =>
          /\ CarriesCors(last_response)
          /\ last_response.body[1] = "500 Internal Server Error"
    /\ last_response.status = NOT_FOUND =>
          /\ CarriesCors(last_response)
          /\ last_response.body[1] =
                 "404 The requested service endpoint is not found"

\* a 404 has been built from the empty message
C20_Witness ==
    /\ last_response.status = NOT_FOUND
    /\ last_response.body =
           <<"404 The requested service endpoint is not found">>

-----------------------------------------------------------------------------
(* Order of processing within a batch *)

\* The state machine of the specification applied to lines[k..], oldest
\* first: a request that starts while another is pending gives false, a
\* response gives true exactly when it answers a pending request with 200
RECURSIVE FoldEvents(_, _, _, _)
FoldEvents(lines, k, pending, healthy) ==
    IF k > Len(lines) THEN healthy
    ELSE IF IsEndpoint(lines[k])
         THEN FoldEvents(lines, k + 1, TRUE,
                         IF pending THEN "false" ELSE healthy)
    ELSE IF IsResponse(lines[k])
         THEN FoldEvents(lines, k + 1, FALSE,
                         IF pending /\ status_code(lines[k]) = "200"
                         THEN "true" ELSE "false")
    ELSE FoldEvents(lines, k + 1, pending, healthy)

\* C24 as stated: the verdict stored for a first batch that begins with a
\* request is the result of folding the state machine over its events,
\* oldest first
C24_VerdictIsFoldOfBatch ==
    (/\ BatchProcessed
     /\ updated
     /\ Len(Observed) = Len(Batch)
     /\ IsEndpoint(Batch[1])) =>
        SERVER_HEALTH = FoldEvents(Batch, 1, FALSE, "unset")

\* lines whose timestamp does not parse, above line k of the batch
BadTimestampsAbove(k) ==
    {i \in (k + 1)..Len(Batch) :
        Batch[i] # <<>> /\ Batch[i][1] = BadTsHeader}

\* C24: the loop goes through the batch newest line first and stops at the
\* first response line it meets: the verdict is taken from that line alone,
\* and the lines below it are never parsed, so only a timestamp that does
\* not parse above it ends the task
C24_NewestFirstStopsAtResponse ==
    [][AnalysisEnds =>
          LET k == IF ResponsesIn(Batch) = {} THEN 0
                   ELSE Newest(ResponsesIn(Batch))
          IN  IF BadTimestampsAbove(k) # {} THEN pc' = "panicked"
              ELSE IF k > 0
                   THEN /\ pc' = "position"
                        /\ SERVER_HEALTH' =
                              (IF status_code(Batch[k]) = "500"
                               THEN "false" ELSE "true")
                   ELSE /\ pc' = "ping"
                        /\ SERVER_HEALTH' = SERVER_HEALTH ]_vars

\* the verdict true was taken from the newest line of a batch whose older
\* lines hold a response with 500 and a timestamp that does not parse
C24_Witness ==
    /\ pc = "position"
    /\ updated
    /\ SERVER_HEALTH = "true"
    /\ IsResponse(Batch[Len(Batch)])
    /\ \E i \in 1..(Len(Batch) - 1) :
          IsResponse(Batch[i]) /\ status_code(Batch[i]) = "500"
    /\ \E i \in 1..(Len(Batch) - 1) : Batch[i][1] = BadTsHeader

-----------------------------------------------------------------------------
(* The cursor and the cells *)

\* the health loop is running after the step
LoopRunsOn == pc' \notin {"unspawned", "failed", "panicked"}

\* C27: while the health loop runs, current_position never decreases, and
\* it changes only at the end of an iteration that has read bytes from the
\* file
C27_CursorNeverDecreases ==
    [][LoopRunsOn =>
          /\ current_position' >= current_position
          /\ current_position' # current_position =>
                /\ pc = "position"
                /\ new_lines # <<>>
                /\ current_position' = current_position + Len(new_lines) ]_vars

\* the cursor has moved forward for the second time
C27_Witness ==
    /\ pc = "sleep"
    /\ can_check
    /\ new_lines # <<>>
    /\ current_position = Len(log)
    /\ Len(new_lines) < current_position

\* the verdict is stored for the first time
VerdictFirstSet == SERVER_HEALTH = "unset" /\ SERVER_HEALTH' # "unset"

\* the line analysis has found a response line
ResponseObserved == pc = "analyze" /\ pc' = "position"

\* C29 as stated: the verdict is unset until the loop observes its first
\* response line or completes its first probe, and is never unset again
C29_FirstWriteByResponseOrProbe ==
    /\ [][VerdictFirstSet => (ResponseObserved \/ ProbeAnswered)]_vars
    /\ [][SERVER_HEALTH # "unset" => SERVER_HEALTH' # "unset"]_vars

\* C29: the verdict is unset while no task is spawned; its first write is
\* made by the first response line the loop observes, by the first probe it
\* completes, or by the error handler of the health task when a file
\* operation fails before either; once set it is never unset again
C29_FirstWriteAlsoByErrorHandler ==
    /\ [](pc = "unspawned" => SERVER_HEALTH = "unset")
    /\ [][VerdictFirstSet =>
             \/ ResponseObserved
             \/ ProbeAnswered
             \/ pc # "failed" /\ pc' = "failed" /\ SERVER_HEALTH' = "false"]_vars
    /\ [][SERVER_HEALTH # "unset" => SERVER_HEALTH' # "unset"]_vars

\* the first verdict was stored by the error handler: no response line was
\* observed and no probe was made
C29_Witness ==
    /\ pc = "failed"
    /\ SERVER_HEALTH = "false"
    /\ elapsed = -1
    /\ since_probe = -1

-----------------------------------------------------------------------------
(* The instant stored for a response, and how far a poll reads *)

\* the line analysis finds a response line in a batch that ends where the
\* file ends: the newest response line the backend wrote is in the batch
NewestResponseObserved == ResponseObserved /\ Len(log) = file_offset

SizeWasLookedAt == elapsed # -1 \/ since_probe # -1

\* C26 as stated: a poll does not read beyond the end of file the loop saw
\* before the read, and bytes appended after that look stay for the next
\* poll
C26_ReadStopsAtSnapshot ==
    [][(ReadIteration /\ SizeWasLookedAt) =>
          /\ file_offset' = Len(log) - late
          /\ Len(new_lines') = Len(log) - late - current_position]_vars

\* C26: a poll reads from the cursor to the end of the file as it is when
\* the read is made, bytes appended since the loop looked at the file size
\* included, and the cursor then advances exactly to where that read ended;
\* bytes appended after the read stay for the next poll
C26_ReadsToEndOfFile ==
    [][ /\ ReadIteration =>
              /\ file_offset' = Len(log)
              /\ new_lines' = SubSeq(log, current_position + 1, Len(log))
        /\ (pc = "position" /\ pc' = "sleep") =>
              /\ current_position' = file_offset
              /\ current_position' = Len(delivered) ]_vars

\* a poll has read, after the bytes the loop saw when it looked at the file
\* size, bytes the backend appended since
C26_Witness ==
    /\ pc = "position"
    /\ SizeWasLookedAt
    /\ late > 0
    /\ Len(new_lines) > late
    /\ file_offset = Len(log)

-----------------------------------------------------------------------------
(* The info push and the notifier *)

\* the number of requests sent to the URL push_server_info is at
SendsToCurrentUrl == info_sends[Len(info_sends)]

\* a step of push_server_info that sends one request
PushAttemptStep == info_pc = "push" /\ info_sends' # info_sends

\* the number of requests the URL of this step has got after the step
SendsAfterStep == info_sends'[Len(info_sends)]

\* after the step the retry loop of the same URL goes on
SameUrlAgain ==
    /\ info_pc' = "push"
    /\ info_subs' = info_subs
    /\ Len(info_sends') = Len(info_sends)
    /\ info_retry' = info_retry + 1

\* after the step the retry loop of this URL is over
UrlLeft == info_pc' \in {"done", "failed"} \/ info_subs' = Tail(info_subs)

\* C21: no URL is sent more than 3 requests; a request that fails, by the
\* transport or by its status, is repeated while fewer than 3 were made,
\* each repetition counts, and the third request ends the loop of the URL.
C21_AtMostThreeAttempts ==
    /\ [](\A i \in DOMAIN info_sends : info_sends[i] <= MaxSendsPerUrl)
    /\ [](info_retry < MaxSendsPerUrl)
    /\ [][PushAttemptStep =>
            /\ (info_last' # "success" /\ SendsAfterStep < MaxSendsPerUrl)
                  => SameUrlAgain
            /\ SendsAfterStep = MaxSendsPerUrl => UrlLeft
            /\ info_last' = "success" => UrlLeft]_vars

C21_Witness ==
    /\ info_pc = "failed"
    /\ info_sends = <<MaxSendsPerUrl, MaxSendsPerUrl>>
    /\ info_last = "transport"

\* a step of the notifier that posts to one subscriber
NotifyPostStep == n_pc = "post" /\ n_subs' # n_subs

\* the POST of this step ended with an error of the transport or with a
\* status that is no success
PostFailed == n_last'.outcome \in {"transport", "nonsuccess"}

\* the notifier has been spawned
NotifierRuns == n_pc # "unspawned"

\* C22: a POST of the verdict that fails costs the notifier nothing but
\* that POST: the subscribers after it are still posted to in the same
\* tick, with the same verdict, and after the last of them the notifier is
\* back at its tick; no outcome of a POST ends the notifier.
C22_FailedPostIsAbandoned ==
    /\ [](NotifierRuns => n_pc \in {"tick", "post"})
    /\ [][(NotifyPostStep /\ PostFailed) =>
            /\ n_subs' = Tail(n_subs)
            /\ n_pc' = IF Tail(n_subs) = <<>> THEN "tick" ELSE "post"
            /\ n_pc' = "post" => n_health' = n_health]_vars

C22_Witness ==
    /\ n_pc = "post"
    /\ n_last.url = "health-hub"
    /\ n_last.outcome = "transport"
    /\ n_subs = <<"health-mirror">>

\* a step of the notifier that ends a tick wait with a verdict
NotifyReadStep == n_pc = "tick" /\ n_pc' = "post"

\* a step of the notifier
NotifyStep == notifyVars' # notifyVars

\* C23: the verdict a tick works with is the value SERVER_HEALTH has when
\* the tick reads it; every subscriber of the set is posted that value,
\* one after the other, before the next tick; a step of the notifier
\* leaves SERVER_HEALTH as it is, and nothing is posted while it is unset.
C23_NotifierPostsWhatItRead ==
    /\ [][NotifyReadStep =>
            /\ SERVER_HEALTH # "unset"
            /\ n_health' = SERVER_HEALTH
            /\ n_subs' \in HealthSubscriberLists]_vars
    /\ [][NotifyPostStep =>
            /\ n_last'.url = Head(n_subs)
            /\ n_last'.health = n_health
            /\ n_subs' = Tail(n_subs)
            /\ n_pc' = "tick" <=> n_subs' = <<>>]_vars
    /\ [][NotifyStep => SERVER_HEALTH' = SERVER_HEALTH]_vars
    /\ [](SERVER_HEALTH = "unset" => n_pc # "post" /\ n_last = NoPost)
    /\ [](n_pc = "post" => n_subs # <<>> /\ n_health \in {"true", "false"})

\* the verdict changed between the read of the tick and the second POST
C23_Witness ==
    /\ n_last.url = "health-mirror"
    /\ n_last.health = "true"
    /\ SERVER_HEALTH = "false"

\* a step of the info push task
PushStep == pushVars' # pushVars

\* a step of the task that runs check_server_health: of the loop, or of
\* the error handler that follows it in the same task
HealthTaskStep ==
    /\ pc # "unspawned"
    /\ <<pc, can_check, current_position, file_offset, new_lines, updated,
          elapsed, ping_path, ping_result, since_probe, last_probe>>'
         # <<pc, can_check, current_position, file_offset, new_lines,
             updated, elapsed, ping_path, ping_result, since_probe,
             last_probe>>

\* the places of the health task that store a verdict: the analysis of a
\* batch, the return of a probe, the error handler
VerdictWritingPlace ==
    \/ pc = "analyze" /\ pc' = "position"
    \/ pc = "ping"
    \/ pc' = "failed"

\* C28: every step that changes SERVER_HEALTH is a step of the task that
\* runs check_server_health, at the analysis of a batch, at the return of
\* a probe or in the task's error handler, and is no step of the notifier
\* or of the info push; the task is one sequential process, spawned once,
\* which is at one place at a time and never spawned again.
C28_VerdictHasOneWriter ==
    /\ [][SERVER_HEALTH' # SERVER_HEALTH =>
            /\ HealthTaskStep
            /\ VerdictWritingPlace
            /\ ~NotifyStep
            /\ ~PushStep]_vars
    /\ [][pc # "unspawned" => pc' # "unspawned" /\ spawned' = spawned]_vars
    /\ [][pc = "failed" => pc' = "failed"]_vars

C28_Witness ==
    /\ SERVER_HEALTH = "false"
    /\ pc = "position"
    /\ n_pc = "post"
    /\ info_pc = "push"

\* a step in which retrieve_server_info makes its SERVER_INFO.set
StoreStep == info_pc = "store" /\ info_pc' # "store"

\* C30: once SERVER_INFO holds a document it holds that document for
\* good; a set on the cell that is filled returns an error, ends the
\* task that made it and leaves the document; the stored document has
\* been augmented once.
C30_InfoCellIsWriteOnce ==
    /\ [][SERVER_INFO # NoInfo => SERVER_INFO' = SERVER_INFO]_vars
    /\ [][(StoreStep /\ SERVER_INFO # NoInfo) =>
            info_pc' = "rejected" /\ SERVER_INFO' = SERVER_INFO]_vars
    /\ [][(StoreStep /\ SERVER_INFO = NoInfo) =>
            info_pc' = "stored" /\ SERVER_INFO'.by = "push_info"]_vars
    /\ [](SERVER_INFO # NoInfo => SERVER_INFO.augmented = 1)
    /\ [](info_pc = "rejected" => SERVER_INFO.by = "router")

C30_Witness ==
    /\ info_pc = "rejected"
    /\ SERVER_INFO = [by |-> "router", augmented |-> 1]

-----------------------------------------------------------------------------
(* The health loop, once more *)

\* the batch without its j - 1 oldest lines
BatchFrom(j) == SubSeq(Batch, j, Len(Batch))

\* C32: when the loop has stored a verdict for a batch, the batch holds a
\* response line, the verdict is false if the last token of the newest one
\* is "500" and true otherwise, and the analysis of the batch gives what
\* it gives for the batch cut down to that line and the lines after it.
C32_NewestResponseAloneDecides ==
    (pc = "position" /\ updated) =>
        /\ ResponsesIn(Batch) # {}
        /\ SERVER_HEALTH = (IF NewestCode = "500" THEN "false" ELSE "true")
        /\ \A j \in 1..Newest(ResponsesIn(Batch)) :
              Scan(BatchFrom(j), Len(BatchFrom(j))) = Analysis(new_lines)

\* a response with 500 and a request lie below a newest response with 404
C32_Witness ==
    /\ pc = "position"
    /\ updated
    /\ Len(Batch) = 3
    /\ IsResponse(Batch[1]) /\ status_code(Batch[1]) = "500"
    /\ IsEndpoint(Batch[2])
    /\ IsResponse(Batch[3]) /\ status_code(Batch[3]) = "404"
    /\ SERVER_HEALTH = "true"

\* the iteration found no new bytes, the timestamp is set and younger
\* than the idle window
InsideIdleWindow ==
    /\ pc = "check"
    /\ ~can_check
    /\ elapsed # -1
    /\ elapsed < MAX_TIME_SPAN_IN_SECONDS

\* such an iteration has reached its sleep
QuietIterationEnds == pc = "sleep" /\ ~can_check /\ ping_path = "none"

\* C33: an iteration that finds no new bytes while the timestamp is set
\* and less than MAX_TIME_SPAN_IN_SECONDS old goes to its sleep without a
\* probe and without a write to the verdict, the timestamp or the cursor;
\* when the loop goes on after the sleep only time has passed.
C33_InsideWindowNothingChanges ==
    /\ [][(InsideIdleWindow /\ pc' # pc) =>
            /\ pc' = "sleep"
            /\ SERVER_HEALTH' = SERVER_HEALTH
            /\ elapsed' = elapsed
            /\ current_position' = current_position
            /\ since_probe' = since_probe
            /\ last_probe' = last_probe
            /\ ping_path' = "none"]_vars
    /\ [][(QuietIterationEnds /\ pc' = "check") =>
            /\ SERVER_HEALTH' = SERVER_HEALTH
            /\ elapsed' = Later(elapsed, Interval)
            /\ current_position' = current_position
            /\ last_probe' = last_probe]_vars
    /\ [](QuietIterationEnds => elapsed < MAX_TIME_SPAN_IN_SECONDS)

\* a verdict of false outlives a poll that found nothing new
C33_Witness ==
    /\ QuietIterationEnds
    /\ elapsed > 0
    /\ SERVER_HEALTH = "false"
    /\ current_position = Len(log)
    /\ current_position > 0

\* the probe of the idle window returns
IdleProbeAnswered == ProbeAnswered /\ ping_path = "idle"

\* C34: when the probe made after MAX_TIME_SPAN_IN_SECONDS without new
\* bytes is answered with a status that is no success, the verdict becomes
\* false if the body holds "Qdrant error:", true if it holds anything
\* else, and stays what it was if the body cannot be read.
C34_IdleProbeRejected ==
    [][IdleProbeAnswered =>
          /\ ping_result' = "qdrant" => SERVER_HEALTH' = "false"
          /\ ping_result' = "rejected" => SERVER_HEALTH' = "true"
          /\ ping_result' = "bodyerr" => SERVER_HEALTH' = SERVER_HEALTH]_vars

\* the body of the answer could not be read and the verdict is still false
C34_Witness ==
    /\ pc = "sleep"
    /\ ping_path = "idle"
    /\ ping_result = "bodyerr"
    /\ SERVER_HEALTH = "false"

\* check_server_health has returned an error and the handler has run
LoopHasFailed == pc = "failed"

\* C35: from the moment check_server_health has returned an error the
\* verdict is false and no step changes it or starts the loop again; the
\* notifier is still at its tick or at a POST, its tick can be taken, the
\* verdict a tick reads from then on is false and that is what it posts.
C35_FailedLoopLeavesFalse ==
    /\ [](LoopHasFailed => SERVER_HEALTH = "false")
    /\ [][LoopHasFailed =>
            pc' = "failed" /\ SERVER_HEALTH' = SERVER_HEALTH]_vars
    /\ [](LoopHasFailed => n_pc \in {"tick", "post"})
    /\ [](LoopHasFailed /\ n_pc = "tick" => ENABLED <<NotifyTick>>_vars)
    /\ [](LoopHasFailed /\ n_pc = "post" => ENABLED <<NotifyPost>>_vars)
    /\ [][(LoopHasFailed /\ NotifyReadStep) => n_health' = "false"]_vars
    /\ [][(LoopHasFailed /\ NotifyPostStep /\ n_health = "false") =>
            n_last'.health = "false"]_vars

\* the loop failed before any verdict was stored, and the notifier has
\* posted false since
C35_Witness ==
    /\ LoopHasFailed
    /\ delivered = <<>>
    /\ since_probe = -1
    /\ n_last.health = "false"
    /\ n_last.outcome = "success"

\* the part of an iteration that follows its write of the verdict
AfterTheWrite == pc \in {"position", "sleep"} /\ pc' \in {"sleep", "check"}

\* C36: an iteration stores the verdict on the response-line path or on
\* the return of its one probe, never on both: a probe returns only in an
\* iteration whose batch holds no response line and that has stored
\* nothing yet, a response line is acted on only in an iteration without
\* a probe; the loop changes the verdict nowhere else, so the value a tick
\* of the notifier reads after the write is the value the iteration ends
\* with.
C36_OneWritePerIteration ==
    /\ [][ProbeAnswered =>
            /\ ResponsesIn(Batch) = {}
            /\ ~updated
            /\ ping_result = "none"]_vars
    /\ [][ResponseObserved => ping_path = "none" /\ ~updated]_vars
    /\ [](~(updated /\ ping_path # "none"))
    /\ [][(SERVER_HEALTH' # SERVER_HEALTH /\ pc' # "failed") =>
            ResponseObserved \/ ProbeAnswered]_vars
    /\ [][AfterTheWrite => SERVER_HEALTH' = SERVER_HEALTH]_vars
    /\ [][NotifyReadStep => n_health' = SERVER_HEALTH]_vars

\* the notifier has read the verdict the first iteration has just stored
C36_Witness ==
    /\ pc = "position"
    /\ current_position = 0
    /\ updated
    /\ SERVER_HEALTH = "false"
    /\ n_pc = "post"
    /\ n_health = "false"

\* the third request to a URL has been sent
ThirdAttempt == PushAttemptStep /\ SendsAfterStep = MaxSendsPerUrl

\* push_server_info has returned
PushReturned == info_pc \in {"done", "failed"}

\* C37: when the third request to a URL fails by the transport,
\* push_server_info returns Err with the URLs after it unserved; when it
\* fails by its status, the URL is given up, the next URL is started with
\* a fresh count, and after the last URL the call returns Ok; once it has
\* returned it sends nothing more.
C37_ThirdFailureByKind ==
    /\ [][(ThirdAttempt /\ info_last' = "transport") =>
            /\ info_pc' = "failed"
            /\ info_subs' = info_subs
            /\ Len(info_sends') = Len(info_sends)]_vars
    /\ [][(ThirdAttempt /\ info_last' = "nonsuccess") =>
            /\ info_subs' = Tail(info_subs)
            /\ info_retry' = 0
            /\ IF Tail(info_subs) = <<>>
               THEN info_pc' = "done"
               ELSE /\ info_pc' = "push"
                    /\ info_sends' = Append([info_sends EXCEPT
                                               ![Len(info_sends)] = @ + 1],
                                            0)]_vars
    /\ [][PushReturned =>
            info_pc' = info_pc /\ info_sends' = info_sends]_vars

\* the first URL was given up after three requests, the third request to
\* the second ended with an error of the transport
C37_Witness ==
    /\ info_pc = "failed"
    /\ info_last = "transport"
    /\ info_subs = <<"info-mirror">>
    /\ info_sends = <<MaxSendsPerUrl, MaxSendsPerUrl>>
    /\ SERVER_INFO.by = "push_info"

\* the iteration ends and its locals go out of scope
IterationEnds == pc = "sleep" \/ pc' \in {"failed", "panicked"}

\* C31: a call of ping_server sends one request: the count of requests of
\* an iteration goes from 0 to 1 when the probe is issued and moves at no
\* other step, nothing is sent while the answer is awaited, and a probe is
\* issued only in an iteration that has not probed yet, so that a second
\* request needs a later iteration of the loop.
C31_OneRequestPerProbe ==
    /\ [](ping_sends <= 1)
    /\ [](pc = "ping" => ping_sends = 1)
    /\ [][ProbeIssued =>
            ping_path = "none" /\ ping_sends = 0 /\ ping_sends' = 1]_vars
    /\ [][ping_sends' > ping_sends => ProbeIssued]_vars
    /\ [][(pc = "ping" /\ pc' = "ping") => ping_sends' = ping_sends]_vars
    /\ [][ping_sends' < ping_sends => IterationEnds]_vars

\* the first probe found the backend down; a later iteration probes again
C31_Witness ==
    /\ pc = "ping"
    /\ ping_path = "idle"
    /\ ping_sends = 1
    /\ delivered = <<>>
    /\ SERVER_HEALTH = "false"

\* a step of the health loop that asks for a lock on
\* TIMESTAMP_LAST_ACCESS_LOG: the write of the response-line path when the
\* cell is set, the read (and the write that may follow) of the idle branch
TimestampLockRequested ==
    \/ ResponseObserved /\ elapsed # -1
    \/ pc = "check" /\ ~can_check /\ elapsed # -1 /\ pc' # pc

\* the health loop can take its next step after an analysis
AnalysisCanEnd ==
    ENABLED <<AnalyzePanics \/ AnalyzeFindsResponse \/ AnalyzeFindsNone>>_vars

\* C38: wherever a task awaits a network call, a sleep or a file
\* operation, no guard on SERVER_HEALTH is held; the only guard alive
\* across an await is the health loop's write guard on the timestamp
\* during the probe of the idle window, and the loop asks for no lock on
\* the timestamp while it holds it; so the notifier's read at a tick, the
\* store after a probe and the store after an analysis can always be
\* made.
C38_NoGuardAcrossAwait ==
    /\ [](health_guard = "none")
    /\ [](ts_guard # "none" => pc \in {"ping", "hung"} /\ ping_path = "idle")
    /\ [][TimestampLockRequested => ts_guard = "none"]_vars
    /\ [](n_pc = "tick" /\ SERVER_HEALTH # "unset"
            => ENABLED <<NotifyTick>>_vars)
    /\ [](pc = "ping" => ENABLED <<PingReturns>>_vars)
    /\ [](pc = "analyze" => AnalysisCanEnd)

\* the notifier has read the verdict and is posting it while the loop
\* awaits the probe of the idle window under its guard on the timestamp
C38_Witness ==
    /\ pc = "ping"
    /\ ts_guard = "write"
    /\ n_pc = "post"
    /\ n_health = SERVER_HEALTH
    /\ info_pc = "push"

=============================================================================
